---- MODULE Spec2Model ----
(***************************************************************************)
(* Model of the pax-builder core (src/pax-builder/src/lib.rs) and of the   *)
(* command-line wrapper that drives it (src/pax-builder/src/main.rs).      *)
(*                                                                         *)
(* Strings the code inspects character by character (package names,        *)
(* versions, dependency names, directory names) are sequences of           *)
(* one-character strings; strings the code only compares or prints are     *)
(* TLA+ strings.  Option<T> is a sequence of length 0 (None) or 1 (Some).  *)
(* Result<T, String> is a record with a boolean field ok.                  *)
(***************************************************************************)
EXTENDS Integers, Sequences, FiniteSets, TLC

VARIABLES
    pcall,      \* the pending call of a pure operation (validate_spec, with_target_arch, ...)
    pret,       \* what that call returned
    stack,      \* the build_package activations, outermost first
    fs,         \* the file system: workspaces and published files
    env,        \* the process environment
    clock,      \* the system clock
    outcome     \* what the request returned when it never reached build_package

vars == <<pcall, pret, stack, fs, env, clock, outcome>>

----------------------------------------------------------------------------
(* Option and Result *)

None == <<>>
Some(x) == <<x>>
IsSome(o) == Len(o) = 1
IsNone(o) == Len(o) = 0
Unwrap(o) == o[1]
UnwrapOr(o, d) == IF IsSome(o) THEN o[1] ELSE d

Ok(v) == [ok |-> TRUE, val |-> v]
Err(e) == [ok |-> FALSE, err |-> e]

NoCall == [fn |-> "none"]
NoRet == [ok |-> FALSE, err |-> "pending"]

Range(s) == {s[i] : i \in 1..Len(s)}

----------------------------------------------------------------------------
(* Target architectures *)

TargetArch ==
    {"X86_64", "X86_64v1", "X86_64v2", "X86_64v3", "Aarch64", "Armv7l",
     "Armv8l", "Riscv64", "Powerpc64le", "S390x"}

\* the values detect_host_architecture can return
HostArchs == {"x86_64", "aarch64", "armv7l", "riscv64", "powerpc64le", "s390x"}

as_label(t) ==
    CASE t = "X86_64" -> "x86_64"
      [] t = "X86_64v1" -> "x86_64_v1"
      [] t = "X86_64v2" -> "x86_64_v2"
      [] t = "X86_64v3" -> "x86_64_v3"
      [] t = "Aarch64" -> "aarch64"
      [] t = "Armv7l" -> "armv7l"
      [] t = "Armv8l" -> "armv8l"
      [] t = "Riscv64" -> "riscv64"
      [] t = "Powerpc64le" -> "powerpc64le"
      [] t = "S390x" -> "s390x"

\* a mutant of target_arch_str: Armv8l keeps its own label
target_arch_str_by_label(t) ==
    IF t \in {"X86_64", "X86_64v1", "X86_64v2", "X86_64v3"} THEN "x86_64"
    ELSE as_label(t)

\* the match at the head of with_target_arch
target_arch_str(t) ==
    CASE t \in {"X86_64", "X86_64v1", "X86_64v2", "X86_64v3"} -> "x86_64"
      [] t = "Aarch64" -> "aarch64"
      [] t = "Armv7l" -> "armv7l"
      [] t = "Armv8l" -> "aarch64"
      [] t = "Riscv64" -> "riscv64"
      [] t = "Powerpc64le" -> "powerpc64le"
      [] t = "S390x" -> "s390x"

\* PaxPackageBuilder: the fields the build reads
Builder(host, target, allow, outdir) ==
    [host_arch |-> host, target_arch |-> target,
     allow_dependency_builds |-> allow, output_directory |-> outdir]

\* the message of the refusal, as the pieces format! joins
ArchRefusal(ts, host) ==
    <<"Target architecture ", ts, " is not supported on host architecture ", host,
      ". PAX builder only supports native builds.">>

with_target_arch(b, t) ==
    LET ts == target_arch_str(t) IN
    IF ts # b.host_arch /\ ~(ts = "aarch64" /\ b.host_arch = "x86_64")
    THEN Err(ArchRefusal(ts, b.host_arch))
    ELSE Ok([b EXCEPT !.target_arch = Some(t)])

with_dependency_builds(b, allow) == [b EXCEPT !.allow_dependency_builds = allow]

with_output_directory(b, dir) == [b EXCEPT !.output_directory = dir]

----------------------------------------------------------------------------
(* Recipes *)

InstallMethod == {"CopyFiles", "RunCommands", "ExtractArchive", "Custom"}

\* A recipe file as written: the fields serde requires (version, description,
\* author) are options here, None standing for a document without the key.
RecipeDoc(name, version, description, author, source_url, deps, build_commands, build_deps, method, install_commands, install_directories, install_files, post_install_commands, pre_install, post_install) ==
    [name |-> name, version |-> version, description |-> description,
     author |-> author, source_url |-> source_url,
     dependencies_build |-> deps, build_commands |-> build_commands,
     build_dependencies |-> build_deps, install_method |-> method,
     install_commands |-> install_commands,
     install_directories |-> install_directories,
     install_files |-> install_files,
     post_install_commands |-> post_install_commands,
     pre_install |-> pre_install, post_install |-> post_install]

\* load_spec on a path: file is None when the path cannot be opened
load_spec(file) ==
    IF IsNone(file) THEN Err("Failed to open spec file")
    ELSE LET doc == Unwrap(file) IN
         IF IsNone(doc.version) \/ IsNone(doc.description) \/ IsNone(doc.author)
         THEN Err("Failed to parse spec file")
         ELSE Ok([doc EXCEPT !.version = Unwrap(doc.version),
                             !.description = Unwrap(doc.description),
                             !.author = Unwrap(doc.author)])

\* a mutant of validation_errors: the install method is not looked at
validation_errors_no_install(spec) ==
    (IF IsNone(spec.name) \/ Unwrap(spec.name) = <<>>
        THEN <<"Package name is required">> ELSE <<>>)
    \o (IF spec.version = <<>> THEN <<"Package version is required">> ELSE <<>>)
    \o (IF spec.description = "" THEN <<"Package description is required">> ELSE <<>>)
    \o (IF spec.author = "" THEN <<"Package author is required">> ELSE <<>>)
    \o (IF spec.version = <<>> THEN <<"Version cannot be empty">> ELSE <<>>)
    \o (IF spec.build_commands = <<>>
        THEN <<"At least one build command is required">> ELSE <<>>)

\* the body of validate_spec: the violations, in the order the code pushes them
validation_errors(spec) ==
    (IF IsNone(spec.name) \/ Unwrap(spec.name) = <<>>
        THEN <<"Package name is required">> ELSE <<>>)
    \o (IF spec.version = <<>> THEN <<"Package version is required">> ELSE <<>>)
    \o (IF spec.description = "" THEN <<"Package description is required">> ELSE <<>>)
    \o (IF spec.author = "" THEN <<"Package author is required">> ELSE <<>>)
    \o (IF spec.version = <<>> THEN <<"Version cannot be empty">> ELSE <<>>)
    \o (IF spec.build_commands = <<>>
        THEN <<"At least one build command is required">> ELSE <<>>)
    \o (CASE spec.install_method = "CopyFiles" /\ spec.install_files = <<>>
               -> <<"Install files are required for CopyFiles method">>
          [] spec.install_method = "RunCommands" /\ spec.install_commands = <<>>
               -> <<"Install commands are required for RunCommands method">>
          [] OTHER -> <<>>)

validate_spec(file) ==
    LET loaded == load_spec(file) IN
    IF ~loaded.ok THEN Err(loaded.err) ELSE Ok(validation_errors(loaded.val))

----------------------------------------------------------------------------
(* Bounds and input domains *)

MaxCmds == 2        \* longest command list of a recipe
MaxFiles == 1       \* longest install_files / install_directories list

\* the command list of a phase: n commands, told apart by their position
Cmds(kind, n) == [i \in 1..n |-> <<kind, i>>]
CmdLists(kind) == {Cmds(kind, n) : n \in 0..MaxCmds}
FileLists(kind) == {Cmds(kind, n) : n \in 0..MaxFiles}

NameHi == <<"h", "i">>
Version1 == <<"1", ".", "0">>

\* recipe documents that differ in every field validate_spec reads
ValidateDocs ==
    {RecipeDoc(n, v, d, a, None, <<>>, bc, <<>>, m, ic, <<>>, if, <<>>, None, None) :
        n \in {None, Some(<<>>), Some(NameHi)},
        v \in {None, Some(<<>>), Some(Version1)},
        d \in {None, Some(""), Some("d")},
        a \in {None, Some(""), Some("a")},
        bc \in CmdLists("build"),
        m \in InstallMethod,
        ic \in CmdLists("install"),
        if \in FileLists("file")}

ValidateFiles == {None} \cup {Some(doc) : doc \in ValidateDocs}

----------------------------------------------------------------------------
(* State of a process in which no build is running *)

\* the environment variables the core reads, each an Option
NoEnv ==
    [PAX_BUILDER_KEEP_WORKSPACE |-> None, PAX_JOB_RESULTS_DIR |-> None,
     PAX_RESULTS_MIRROR |-> None, PAX_PACKAGE_NAME |-> None,
     PAX_PACKAGE_VERSION |-> None, PAX_PACKAGE_RELEASE |-> None,
     PAX_TARGET_RELEASE |-> None, PAX_BRANCH |-> None]

\* recipes: directory name -> Option(recipe document), the siblings of one
\* release directory; workspaces: the workspace directories that exist;
\* files: path -> content of the files under the output roots
NoFs == [recipes |-> <<>>, workspaces |-> {}, files |-> <<>>]

IdleBuild ==
    /\ stack = <<>>
    /\ fs = NoFs
    /\ env = NoEnv
    /\ clock = 0
    /\ outcome = NoRet

----------------------------------------------------------------------------
(* validate_spec, called on its own (the validate command of main.rs) *)

InitValidate ==
    /\ pcall \in {[fn |-> "validate_spec", file |-> f] : f \in ValidateFiles}
    /\ pret = NoRet
    /\ IdleBuild

ValidateSpec ==
    /\ pcall.fn = "validate_spec"
    /\ pret = NoRet
    /\ pret' = validate_spec(pcall.file)
    /\ UNCHANGED <<pcall, stack, fs, env, clock, outcome>>

NextValidate == ValidateSpec

SpecValidate == InitValidate /\ [][NextValidate]_vars

(* with_target_arch on a freshly constructed builder *)

InitArch ==
    /\ pcall \in {[fn |-> "with_target_arch",
                   builder |-> Builder(h, None, TRUE, [path |-> "results", absolute |-> FALSE]),
                   target |-> t] : h \in HostArchs, t \in TargetArch}
    /\ pret = NoRet
    /\ IdleBuild

WithTargetArch ==
    /\ pcall.fn = "with_target_arch"
    /\ pret = NoRet
    /\ pret' = with_target_arch(pcall.builder, pcall.target)
    /\ UNCHANGED <<pcall, stack, fs, env, clock, outcome>>

NextArch == WithTargetArch

SpecArch == InitArch /\ [][NextArch]_vars

----------------------------------------------------------------------------
(* Claims about validate_spec *)

Returned(r) == r.ok \/ r.err # "pending"

\* the invariants of a recipe, as the specification lists them
MeetsInvariants(doc) ==
    /\ IsSome(doc.name) /\ Unwrap(doc.name) # <<>>
    /\ IsSome(doc.version) /\ Unwrap(doc.version) # <<>>
    /\ IsSome(doc.description) /\ Unwrap(doc.description) # ""
    /\ IsSome(doc.author) /\ Unwrap(doc.author) # ""
    /\ doc.build_commands # <<>>
    /\ doc.install_method = "CopyFiles" => doc.install_files # <<>>
    /\ doc.install_method = "RunCommands" => doc.install_commands # <<>>

\* C6: for every recipe that parses, validate_spec returns the empty list of
\* violations if and only if the recipe meets every invariant (name present
\* and non-empty, version, description and author non-empty, a build command,
\* install_files for CopyFiles, install_commands for RunCommands).
C6_EmptyIffValid ==
    (pcall.fn = "validate_spec" /\ pret.ok)
        => (pret.val = <<>> <=> MeetsInvariants(Unwrap(pcall.file)))

C6_Witness ==
    /\ pcall.fn = "validate_spec" /\ pret.ok /\ pret.val = <<>>
    /\ Unwrap(pcall.file).install_method = "CopyFiles"

\* the fields of a recipe that violate an invariant
Defects(doc) ==
    (IF IsNone(doc.name) \/ Unwrap(doc.name) = <<>> THEN {"name"} ELSE {})
    \cup (IF IsNone(doc.version) \/ Unwrap(doc.version) = <<>> THEN {"version"} ELSE {})
    \cup (IF IsNone(doc.description) \/ Unwrap(doc.description) = ""
          THEN {"description"} ELSE {})
    \cup (IF IsNone(doc.author) \/ Unwrap(doc.author) = "" THEN {"author"} ELSE {})
    \cup (IF doc.build_commands = <<>> THEN {"build_commands"} ELSE {})
    \cup (IF doc.install_method = "CopyFiles" /\ doc.install_files = <<>>
          THEN {"install_files"} ELSE {})
    \cup (IF doc.install_method = "RunCommands" /\ doc.install_commands = <<>>
          THEN {"install_commands"} ELSE {})

\* the field a violation message names
FieldNamed(msg) ==
    CASE msg = "Package name is required" -> "name"
      [] msg = "Package version is required" -> "version"
      [] msg = "Version cannot be empty" -> "version"
      [] msg = "Package description is required" -> "description"
      [] msg = "Package author is required" -> "author"
      [] msg = "At least one build command is required" -> "build_commands"
      [] msg = "Install files are required for CopyFiles method" -> "install_files"
      [] msg = "Install commands are required for RunCommands method" -> "install_commands"

Parses(doc) == IsSome(doc.version) /\ IsSome(doc.description) /\ IsSome(doc.author)

\* C7: a recipe that parses and whose only defect is one violated invariant
\* gets a list of exactly one violation, and that violation names the
\* offending field.
C7_ExactlyOneViolation ==
    (/\ pcall.fn = "validate_spec" /\ Returned(pret) /\ IsSome(pcall.file)
     /\ Parses(Unwrap(pcall.file))
     /\ Cardinality(Defects(Unwrap(pcall.file))) = 1)
        => /\ pret.ok
           /\ Len(pret.val) = 1
           /\ FieldNamed(pret.val[1]) \in Defects(Unwrap(pcall.file))

----------------------------------------------------------------------------
(* Claims about with_target_arch *)

X86Variants == {"X86_64", "X86_64v1", "X86_64v2", "X86_64v3"}

Contains(msg, piece) == \E i \in 1..Len(msg) : msg[i] = piece

\* C8 as stated: with_target_arch(t) on host h succeeds and records t exactly
\* when t's architecture equals h, or t is Aarch64 and h is x86_64; every
\* other pair, in particular every non-x86_64 target other than Aarch64 on an
\* x86_64 host, gets an error containing "not supported on host architecture".
C8_OnlyAarch64Crosses ==
    (pcall.fn = "with_target_arch" /\ Returned(pret))
        => LET t == pcall.target
               h == pcall.builder.host_arch IN
           /\ pret.ok <=> (target_arch_str(t) = h \/ (t = "Aarch64" /\ h = "x86_64"))
           /\ (h = "x86_64" /\ t \notin X86Variants /\ t # "Aarch64") => ~pret.ok
           /\ pret.ok => pret.val.target_arch = Some(t)
           /\ ~pret.ok => Contains(pret.err, " is not supported on host architecture ")

\* the pairs with_target_arch accepts, written out
AcceptedPair(t, h) ==
    \/ t \in X86Variants /\ h = "x86_64"
    \/ t \in {"Aarch64", "Armv8l"} /\ h \in {"aarch64", "x86_64"}
    \/ t = "Armv7l" /\ h = "armv7l"
    \/ t = "Riscv64" /\ h = "riscv64"
    \/ t = "Powerpc64le" /\ h = "powerpc64le"
    \/ t = "S390x" /\ h = "s390x"

\* C8 as amended: with_target_arch(t) on host h succeeds and records t exactly
\* when t's architecture equals h or t's architecture is aarch64 and h is
\* x86_64, where Armv8l counts as aarch64 like Aarch64 (and the four x86_64
\* variants as x86_64); for every other pair, in particular every target
\* other than the x86_64 variants, Aarch64 and Armv8l on an x86_64 host, it
\* returns an error containing "not supported on host architecture" and no
\* target is recorded.
C8_Aarch64FamilyCrosses ==
    (pcall.fn = "with_target_arch" /\ Returned(pret))
        => LET t == pcall.target
               h == pcall.builder.host_arch IN
           /\ pret.ok <=> AcceptedPair(t, h)
           /\ (h = "x86_64" /\ t \notin X86Variants \cup {"Aarch64", "Armv8l"}) => ~pret.ok
           /\ pret.ok => pret.val = [pcall.builder EXCEPT !.target_arch = Some(t)]
           /\ ~pret.ok => Contains(pret.err, " is not supported on host architecture ")

C8_Witness ==
    /\ pcall.fn = "with_target_arch" /\ pret.ok
    /\ pcall.target = "Armv8l" /\ pcall.builder.host_arch = "x86_64"

----------------------------------------------------------------------------
(* Strings as sequences of characters *)

LowerLetters ==
    <<"a", "b", "c", "d", "e", "f", "g", "h", "i", "j", "k", "l", "m",
      "n", "o", "p", "q", "r", "s", "t", "u", "v", "w", "x", "y", "z">>
UpperLetters ==
    <<"A", "B", "C", "D", "E", "F", "G", "H", "I", "J", "K", "L", "M",
      "N", "O", "P", "Q", "R", "S", "T", "U", "V", "W", "X", "Y", "Z">>
Digits == {"0", "1", "2", "3", "4", "5", "6", "7", "8", "9"}

is_ascii_alphanumeric(c) ==
    c \in Range(LowerLetters) \cup Range(UpperLetters) \cup Digits

to_ascii_lowercase(c) ==
    IF c \in Range(UpperLetters)
    THEN LowerLetters[CHOOSE i \in 1..Len(UpperLetters) : UpperLetters[i] = c]
    ELSE c

MapChars(s, F(_)) == [i \in 1..Len(s) |-> F(s[i])]

\* the ASCII letters and digits of s, in order
RECURSIVE FilterAlnum(_)
FilterAlnum(s) ==
    IF s = <<>> THEN <<>>
    ELSE (IF is_ascii_alphanumeric(Head(s)) THEN <<Head(s)>> ELSE <<>>)
         \o FilterAlnum(Tail(s))

ends_with(s, suffix) ==
    /\ Len(suffix) <= Len(s)
    /\ SubSeq(s, Len(s) - Len(suffix) + 1, Len(s)) = suffix

\* Option: s without the suffix
strip_suffix(s, suffix) ==
    IF ends_with(s, suffix) THEN Some(SubSeq(s, 1, Len(s) - Len(suffix))) ELSE None

starts_with(s, prefix) ==
    /\ Len(prefix) <= Len(s)
    /\ SubSeq(s, 1, Len(prefix)) = prefix

\* the positions at which needle occurs in s
Occurrences(s, needle) ==
    {i \in 1..(Len(s) - Len(needle) + 1) : SubSeq(s, i, i + Len(needle) - 1) = needle}

contains(s, needle) == needle = <<>> \/ Occurrences(s, needle) # {}

\* Option: the first position of needle in s (str::find)
find(s, needle) ==
    IF Occurrences(s, needle) = {} THEN None
    ELSE Some(CHOOSE i \in Occurrences(s, needle) :
                  \A j \in Occurrences(s, needle) : i <= j)

\* str::replace of one character by another
replace_char(s, from, to) == [i \in 1..Len(s) |-> IF s[i] = from THEN to ELSE s[i]]

\* the pieces of a format! string, joined
RECURSIVE Concat(_)
Concat(parts) == IF parts = <<>> THEN <<>> ELSE Head(parts) \o Concat(Tail(parts))

normalize_name(name) ==
    MapChars(FilterAlnum(name), to_ascii_lowercase)

sanitize_char(ch) ==
    IF is_ascii_alphanumeric(ch) \/ ch = "_" \/ ch = "-" \/ ch = "." THEN ch ELSE "_"

\* a mutant of sanitize_component: the empty string is kept
sanitize_component_keeps_empty(value) ==
    MapChars(value, sanitize_char)

sanitize_component(value) ==
    LET result == MapChars(value, sanitize_char) IN
    IF result = <<>> THEN <<"_">> ELSE result

SfxDevel == <<"-", "d", "e", "v", "e", "l">>
SfxDev == <<"-", "d", "e", "v">>
SfxHeaders == <<"-", "h", "e", "a", "d", "e", "r", "s">>
SfxSdk == <<"-", "s", "d", "k">>

\* a mutant of should_auto_build_dependency: the name is not lower-cased
should_auto_build_dependency_exact_case(name) ==
    \/ ends_with(name, SfxDevel)
    \/ ends_with(name, SfxDev)
    \/ ends_with(name, SfxHeaders)
    \/ ends_with(name, SfxSdk)

should_auto_build_dependency(name) ==
    LET lower == MapChars(name, to_ascii_lowercase) IN
    \/ ends_with(lower, SfxDevel)
    \/ ends_with(lower, SfxDev)
    \/ ends_with(lower, SfxHeaders)
    \/ ends_with(lower, SfxSdk)

\* a mutant of dependency_candidates: the name is looked up as it is
dependency_candidates_exact(dep_name) ==
    {normalize_name(dep_name)}

\* the keys find_dependency_recipe looks for
dependency_candidates(dep_name) ==
    {normalize_name(dep_name)}
    \cup {normalize_name(Unwrap(strip_suffix(dep_name, sfx))) :
            sfx \in {x \in {SfxDevel, SfxDev, SfxHeaders} : ends_with(dep_name, x)}}

\* the architecture labels, spelled out
LabelChars(label) ==
    CASE label = "x86_64" -> <<"x", "8", "6", "_", "6", "4">>
      [] label = "x86_64_v1" -> <<"x", "8", "6", "_", "6", "4", "_", "v", "1">>
      [] label = "x86_64_v2" -> <<"x", "8", "6", "_", "6", "4", "_", "v", "2">>
      [] label = "x86_64_v3" -> <<"x", "8", "6", "_", "6", "4", "_", "v", "3">>
      [] label = "aarch64" -> <<"a", "a", "r", "c", "h", "6", "4">>
      [] label = "armv7l" -> <<"a", "r", "m", "v", "7", "l">>
      [] label = "armv8l" -> <<"a", "r", "m", "v", "8", "l">>
      [] label = "riscv64" -> <<"r", "i", "s", "c", "v", "6", "4">>
      [] label = "powerpc64le" -> <<"p", "o", "w", "e", "r", "p", "c", "6", "4", "l", "e">>
      [] label = "s390x" -> <<"s", "3", "9", "0", "x">>

----------------------------------------------------------------------------
(* Source download *)

\* A URL is a sequence of pieces; the code's substring searches are searches
\* for runs of pieces.
GnuMarker == <<"://", "ftp.gnu.org/", "gnu/">>
GnuHost == <<"://", "ftp.gnu.org/">>
GithubMarker == <<"://", "github.com/">>
GithubPrefix == <<"https", "://", "github.com/">>
TagsMarker == <<"/archive/refs/tags/">>

\* Vec::dedup: consecutive repetitions removed
RECURSIVE dedup(_)
dedup(urls) ==
    IF Len(urls) <= 1 THEN urls
    ELSE IF urls[1] = urls[2] THEN dedup(Tail(urls))
    ELSE <<urls[1]>> \o dedup(Tail(urls))

GnuMirrors(original) ==
    LET at == find(original, GnuMarker) IN
    IF IsNone(at) THEN <<>>
    ELSE LET path == SubSeq(original, Unwrap(at) + Len(GnuHost), Len(original)) IN
         << <<"https", "://", "ftpmirror.gnu.org/">> \o path,
            <<"https", "://", "mirrors.kernel.org/", "gnu/">> \o path >>

CodeloadMirror(original) ==
    IF /\ contains(original, GithubMarker)
       /\ contains(original, TagsMarker)
       /\ starts_with(original, GithubPrefix)
    THEN LET stripped == SubSeq(original, Len(GithubPrefix) + 1, Len(original))
             at == find(stripped, TagsMarker) IN
         IF IsNone(at) THEN <<>>
         ELSE << <<"https", "://", "codeload.github.com/">>
                 \o SubSeq(stripped, 1, Unwrap(at) - 1)
                 \o <<"/tar.gz/refs/tags/">>
                 \o SubSeq(stripped, Unwrap(at) + Len(TagsMarker), Len(stripped)) >>
    ELSE <<>>

\* a mutant of candidate_source_urls: the mirrors are tried before the original
candidate_source_urls_mirrors_first(original) ==
    dedup(GnuMirrors(original) \o CodeloadMirror(original) \o <<original>>)

candidate_source_urls(original) ==
    dedup(<<original>> \o GnuMirrors(original) \o CodeloadMirror(original))

\* what one fetch_source call can do: the client cannot be built, the request
\* fails, the status is not 2xx, the body cannot be read, the archive cannot
\* be written, or the archive is written
FetchOutcomes == {"client_error", "send_error", "http_error", "body_error", "write_error", "ok"}

\* the outcomes in which the server answered HTTP 2xx
Answered2xx == {"body_error", "write_error", "ok"}

fetch_error(url, outc) == <<"Failed to download", url, outc>>

\* url.trim().is_empty()
is_blank(url) == \A i \in 1..Len(url) : url[i] = " "

\* Path::file_name of the URL
file_name(url) ==
    IF url = <<>> \/ url[Len(url)] = ".." THEN None ELSE Some(url[Len(url)])

----------------------------------------------------------------------------
(* build_package: the state of one activation *)

KeepValues == {"1", "true", "TRUE", "True"}

\* a mutant of keep_workspace: any value of the variable retains the workspace
keep_workspace_if_set(e) == IsSome(e.PAX_BUILDER_KEEP_WORKSPACE)

keep_workspace(e) ==
    /\ IsSome(e.PAX_BUILDER_KEEP_WORKSPACE)
    /\ Unwrap(e.PAX_BUILDER_KEEP_WORKSPACE) \in KeepValues

UnnamedPackage == <<"u", "n", "n", "a", "m", "e", "d", "-", "p", "a", "c", "k", "a", "g", "e">>
DefaultRelease == <<"1">>
DefaultTargetRelease == <<"o", "r", "e", "o", "n", "1", "1">>
DefaultBranch == <<"m", "a", "i", "n", "s", "t", "r", "e", "a", "m">>
ExtPax == <<".", "p", "a", "x">>
ExtSrcPax == <<".", "s", "r", "c", ".", "p", "a", "x">>

package_name_of(spec) == UnwrapOr(spec.name, UnnamedPackage)

\* the build_id: name and version with '/' replaced, and the microseconds
build_id(spec, micros) ==
    [name |-> replace_char(package_name_of(spec), "/", "_"),
     version |-> replace_char(spec.version, "/", "_"),
     micros |-> micros]

NewFrame(builder, dir) ==
    [builder |-> builder, dir |-> dir, pc |-> "start", idx |-> 1,
     spec |-> None, ws |-> None, keep |-> FALSE, start_time |-> 0,
     log |-> <<>>, phases |-> <<>>,
     archive |-> None, cands |-> <<>>, fetches |-> <<>>,
     deps |-> <<>>, visited |-> {}, sysroot |-> <<>>, subbuilds |-> <<>>,
     packaged |-> None, metadata |-> None, warnings |-> {}, at |-> "none",
     ret |-> NoRet]

Top == stack[Len(stack)]
SetTop(f) == [stack EXCEPT ![Len(stack)] = f]
Running == stack # <<>> /\ Top.pc # "returned"

Logged(f, line) == [f EXCEPT !.log = Append(@, line)]
Did(f, phase, i) == [f EXCEPT !.phases = Append(@, [phase |-> phase, idx |-> i])]

\* the activation after `let _ = fs::remove_dir_all(&workspace)` guarded by
\* keep_workspace, and the file system after it
Cleaned(f) == IF f.keep THEN f ELSE Did(f, "cleanup", 1)
FsCleaned(f, files) ==
    IF f.keep THEN files ELSE [files EXCEPT !.workspaces = @ \ {Unwrap(f.ws)}]

\* return Err(err), with or without the cleanup the failure path performs;
\* at keeps the step that failed
Failed(f, err, cleanup) ==
    [(IF cleanup THEN Cleaned(f) ELSE f) EXCEPT !.pc = "returned", !.ret = Err(err),
                                                !.at = f.pc]
FsFailed(f, files, cleanup) == IF cleanup THEN FsCleaned(f, files) ELSE files

----------------------------------------------------------------------------
(* build_package: the order of the steps *)

\* a mutant of NextStep: the post_install script runs before the post-install
\* commands
NextStep_script_first(pc, spec) ==
    CASE pc = "sources" -> "deps"
      [] pc = "deps" -> "dep"
      [] pc = "dep" -> "build"
      [] pc = "build" -> "destdir"
      [] pc = "destdir" -> "pre_install"
      [] pc = "pre_install" ->
            IF spec.install_method = "CopyFiles" THEN "copy_files" ELSE "install_dirs"
      [] pc = "install_dirs" -> "install_cmds"
      [] pc = "install_cmds" -> "post_install"
      [] pc = "copy_files" -> "post_install"
      [] pc = "post_install" -> "post_cmds"
      [] pc = "post_cmds" -> "pkg_prepare"
      [] pc = "pkg_prepare" -> "pkg_binary"
      [] pc = "pkg_binary" -> "pkg_source"
      [] pc = "pkg_source" -> "pkg_job"
      [] pc = "pkg_job" -> "pkg_mirror"
      [] pc = "pkg_mirror" -> "pkg_finish"
      [] pc = "pkg_finish" -> "collect"

\* the step that follows step pc in build_package, execute_install_steps and
\* package_artifacts
NextStep(pc, spec) ==
    CASE pc = "sources" -> "deps"
      [] pc = "deps" -> "dep"
      [] pc = "dep" -> "build"
      [] pc = "build" -> "destdir"
      [] pc = "destdir" -> "pre_install"
      [] pc = "pre_install" ->
            IF spec.install_method = "CopyFiles" THEN "copy_files" ELSE "install_dirs"
      [] pc = "install_dirs" -> "install_cmds"
      [] pc = "install_cmds" -> "post_cmds"
      [] pc = "copy_files" -> "post_cmds"
      [] pc = "post_cmds" -> "post_install"
      [] pc = "post_install" -> "pkg_prepare"
      [] pc = "pkg_prepare" -> "pkg_binary"
      [] pc = "pkg_binary" -> "pkg_source"
      [] pc = "pkg_source" -> "pkg_job"
      [] pc = "pkg_job" -> "pkg_mirror"
      [] pc = "pkg_mirror" -> "pkg_finish"
      [] pc = "pkg_finish" -> "collect"

\* the items a looping step goes through
StepItems(f, pc) ==
    CASE pc = "dep" -> f.deps
      [] pc = "build" -> Unwrap(f.spec).build_commands
      [] pc = "install_dirs" -> Unwrap(f.spec).install_directories
      [] pc = "install_cmds" -> Unwrap(f.spec).install_commands
      [] pc = "copy_files" -> Unwrap(f.spec).install_files
      [] pc = "post_cmds" -> Unwrap(f.spec).post_install_commands
      [] OTHER -> <<>>

LoopSteps == {"dep", "build", "install_dirs", "install_cmds", "copy_files", "post_cmds"}

\* whether step f.pc has something to run (a loop with items left, a script
\* that is present, a secondary destination that is set)
HasWork(f, e) ==
    CASE f.pc \in LoopSteps -> f.idx <= Len(StepItems(f, f.pc))
      [] f.pc = "pre_install" -> IsSome(Unwrap(f.spec).pre_install)
      [] f.pc = "post_install" -> IsSome(Unwrap(f.spec).post_install)
      [] f.pc = "pkg_job" -> IsSome(e.PAX_JOB_RESULTS_DIR)
      [] f.pc = "pkg_mirror" -> IsSome(e.PAX_RESULTS_MIRROR)
      [] OTHER -> TRUE

\* control falls through the steps that have nothing to run
RECURSIVE Settle(_, _)
Settle(f, e) ==
    IF HasWork(f, e) THEN f
    ELSE Settle([f EXCEPT !.pc = NextStep(f.pc, Unwrap(f.spec)), !.idx = 1], e)

\* the activation once step f.pc is over
StepDone(f, e) == Settle([f EXCEPT !.pc = NextStep(f.pc, Unwrap(f.spec)), !.idx = 1], e)
\* the activation once item f.idx of a looping step is over
ItemDone(f, e) == Settle([f EXCEPT !.idx = @ + 1], e)

----------------------------------------------------------------------------
(* build_package: workspace and sources *)

\* load_spec, the build_id and the creation of the workspace
StartBuild ==
    /\ Running /\ Top.pc = "start"
    /\ LET f == Top
           loaded == load_spec(fs.recipes[f.dir]) IN
       IF ~loaded.ok
       THEN /\ stack' = SetTop(Failed(f, loaded.err, FALSE))
            /\ fs' = fs
       ELSE \E created \in BOOLEAN :
            LET ws == build_id(loaded.val, clock)
                g == [f EXCEPT !.spec = Some(loaded.val), !.start_time = clock] IN
            IF ~created
            THEN /\ stack' = SetTop(Failed(g, <<"Failed to create workspace", ws>>, FALSE))
                 /\ fs' = fs
            ELSE /\ stack' = SetTop(Did([g EXCEPT !.ws = Some(ws),
                                                  !.keep = keep_workspace(env),
                                                  !.pc = "sources"],
                                        "workspace", 1))
                 /\ fs' = [fs EXCEPT !.workspaces = @ \cup {ws}]
    /\ UNCHANGED <<pcall, pret, env, clock, outcome>>

\* prepare_sources up to the first download attempt
PrepareSources ==
    /\ Running /\ Top.pc = "sources"
    /\ LET f == Did(Top, "sources", 1)
           url == Unwrap(f.spec).source_url IN
       IF IsNone(url)
       THEN /\ stack' = SetTop(StepDone(f, env))
            /\ fs' = fs
       ELSE IF is_blank(Unwrap(url))
       THEN /\ stack' = SetTop(StepDone(Logged(f, <<"No source URL defined">>), env))
            /\ fs' = fs
       ELSE IF IsNone(file_name(Unwrap(url)))
       THEN /\ stack' = SetTop(Failed(Logged(f, <<"Downloading source from", Unwrap(url)>>),
                                      "Unable to determine source archive name", TRUE))
            /\ fs' = FsFailed(f, fs, TRUE)
       ELSE /\ stack' = SetTop([Logged(f, <<"Downloading source from", Unwrap(url)>>)
                                   EXCEPT !.pc = "download", !.idx = 1,
                                          !.cands = candidate_source_urls(Unwrap(url)),
                                          !.fetches = <<>>])
            /\ fs' = fs
    /\ UNCHANGED <<pcall, pret, env, clock, outcome>>

\* one turn of the loop of download_source: fetch_source on the next candidate
FetchSource ==
    /\ Running /\ Top.pc = "download"
    /\ \E outc \in FetchOutcomes :
       LET f == Top
           url == f.cands[f.idx]
           g == [f EXCEPT !.fetches = Append(@, [url |-> url, outcome |-> outc])] IN
       IF outc = "ok"
       THEN /\ stack' = SetTop([g EXCEPT !.pc = "extract", !.idx = 1,
                                         !.archive = file_name(Unwrap(Unwrap(f.spec).source_url))])
            /\ fs' = fs
       ELSE IF f.idx < Len(f.cands)
       THEN /\ stack' = SetTop([g EXCEPT !.idx = @ + 1])
            /\ fs' = fs
       ELSE /\ stack' = SetTop(Failed(g, fetch_error(url, outc), TRUE))
            /\ fs' = FsFailed(f, fs, TRUE)
    /\ UNCHANGED <<pcall, pret, env, clock, outcome>>

\* extract_archive: tar, then the first directory of the workspace
ExtractArchive ==
    /\ Running /\ Top.pc = "extract"
    /\ \E outc \in {"ok", "spawn_error", "tar_failed", "read_dir_error", "no_directory"} :
       LET f == Logged([Top EXCEPT !.fetches = <<>>, !.cands = <<>>],
                       <<"Extracting archive", Unwrap(Top.archive)>>) IN
       IF outc = "ok"
       THEN /\ stack' = SetTop(StepDone([f EXCEPT !.pc = "sources"], env))
            /\ fs' = fs
       ELSE /\ stack' = SetTop(Failed(f, <<"Failed to extract archive", outc>>, TRUE))
            /\ fs' = FsFailed(f, fs, TRUE)
    /\ UNCHANGED <<pcall, pret, env, clock, outcome>>

----------------------------------------------------------------------------
(* build_package: build dependencies *)

TripleLabel(t) ==
    CASE t \in {"X86_64", "X86_64v1", "X86_64v2", "X86_64v3"} -> LabelChars("x86_64") \o <<"-">>
      [] t \in {"Aarch64", "Armv8l"} -> LabelChars("aarch64") \o <<"-">>
      [] t = "Armv7l" -> <<"a", "r", "m", "v", "7", "-", "e", "a", "b", "i", "h", "f">>
      [] t = "Riscv64" -> LabelChars("riscv64") \o <<"g", "c", "-">>
      [] t = "Powerpc64le" -> LabelChars("powerpc64le") \o <<"-">>
      [] t = "S390x" -> LabelChars("s390x") \o <<"-">>

\* to_triple() with "unknown-linux-gnu" taken out, or the host architecture
target_label(b) ==
    IF IsSome(b.target_arch) THEN TripleLabel(Unwrap(b.target_arch))
    ELSE LabelChars(b.host_arch)

\* a file under an output root: the root, the directories below it, the name
OutPath(root, dir, file) == [root |-> root, dir |-> dir, file |-> file]

\* the path at which build_dependency looks for an artifact built earlier
expected_artifact(b, recipe_name, dep_spec) ==
    OutPath(b.output_directory.path, <<>>,
            Concat(<<UnwrapOr(dep_spec.name, replace_char(recipe_name, "_", "-")),
                     <<"-">>, dep_spec.version, <<"-">>, target_label(b), ExtPax>>))

\* a mutant of dependency_builder: the sub-build may build dependencies too
dependency_builder_recursive(b) ==
    LET fresh == Builder(b.host_arch, None, TRUE, b.output_directory) IN
    IF IsSome(b.target_arch)
    THEN with_target_arch(fresh, Unwrap(b.target_arch))
    ELSE Ok(fresh)

\* the builder build_dependency creates for the sub-build
dependency_builder(b) ==
    LET fresh == with_dependency_builds(
                     with_output_directory(Builder(b.host_arch, None, TRUE, b.output_directory),
                                           b.output_directory),
                     FALSE) IN
    IF IsSome(b.target_arch)
    THEN with_target_arch(fresh, Unwrap(b.target_arch))
    ELSE Ok(fresh)

MaxDepth == 3       \* cap on nested build_package activations

\* the directories of the release directory find_dependency_recipe may return
\* (read_dir lists them in no particular order)
find_dependency_recipe(dep_name, recipes) ==
    {d \in DOMAIN recipes : normalize_name(d) \in dependency_candidates(dep_name)}

\* the head of prepare_dependencies
PrepareDependencies ==
    /\ Running /\ Top.pc = "deps"
    /\ LET f == Top
           spec == Unwrap(f.spec) IN
       IF ~f.builder.allow_dependency_builds
       THEN /\ stack' = SetTop(StepDone(Logged(f, <<"Dependency auto-build disabled">>), env))
            /\ fs' = fs
       ELSE IF spec.dependencies_build = <<>> /\ spec.build_dependencies = <<>>
       THEN /\ stack' = SetTop(StepDone(f, env))
            /\ fs' = fs
       ELSE \E created \in BOOLEAN :
            IF ~created
            THEN /\ stack' = SetTop(Failed(f, "Failed to create dependency sysroot", TRUE))
                 /\ fs' = FsFailed(f, fs, TRUE)
            ELSE /\ stack' = SetTop(StepDone(
                        [f EXCEPT !.deps = spec.dependencies_build \o spec.build_dependencies,
                                  !.visited = {}], env))
                 /\ fs' = fs
    /\ UNCHANGED <<pcall, pret, env, clock, outcome>>

\* a mutant of visited_key: the visited set holds dependency names
visited_key_by_dependency(dep_name, recipe_dir) == normalize_name(dep_name)

\* what build_dependency inserts into the visited set
visited_key(dep_name, recipe_dir) == normalize_name(recipe_dir)

\* one turn of the loops of prepare_dependencies: the name filter, then
\* build_dependency up to the sub-build
BuildDependency ==
    /\ Running /\ Top.pc = "dep"
    /\ LET f == Top
           dep == f.deps[f.idx]
           found == find_dependency_recipe(dep, fs.recipes) IN
       IF ~should_auto_build_dependency(dep)
       THEN /\ stack' = SetTop(ItemDone(Logged(f, <<"Skipping auto-build", dep>>), env))
            /\ fs' = fs
       ELSE IF found = {}
       THEN /\ stack' = SetTop(ItemDone(Logged(f, <<"recipe not found", dep>>), env))
            /\ fs' = fs
       ELSE \E recipe_dir \in found :
            LET recipe_name == normalize_name(recipe_dir)
                g == [f EXCEPT !.visited = @ \cup {visited_key(dep, recipe_dir)}]
                loaded == load_spec(fs.recipes[recipe_dir])
                sub == dependency_builder(f.builder) IN
            IF recipe_name = normalize_name(f.dir)
            THEN /\ stack' = SetTop(ItemDone(Logged(f, <<"avoid recursive build loop", dep>>), env))
                 /\ fs' = fs
            ELSE IF visited_key(dep, recipe_dir) \in f.visited
            THEN /\ stack' = SetTop(ItemDone(Logged(f, <<"already built", dep>>), env))
                 /\ fs' = fs
            ELSE IF IsNone(fs.recipes[recipe_dir])
            THEN /\ stack' = SetTop(Failed(g, <<"does not contain a .yaml specification",
                                                recipe_dir>>, TRUE))
                 /\ fs' = FsFailed(f, fs, TRUE)
            ELSE IF ~loaded.ok
            THEN /\ stack' = SetTop(Failed(g, loaded.err, TRUE))
                 /\ fs' = FsFailed(f, fs, TRUE)
            ELSE IF expected_artifact(f.builder, recipe_name, loaded.val) \in DOMAIN fs.files
            THEN \E extracted \in BOOLEAN :
                 LET cached == expected_artifact(f.builder, recipe_name, loaded.val)
                     h == Logged(g, <<"Using cached dependency artifact", cached>>) IN
                 IF extracted
                 THEN /\ stack' = SetTop(ItemDone(
                             [h EXCEPT !.sysroot = Append(@, cached),
                                       !.subbuilds = Append(@, [dir |-> recipe_dir,
                                                                how |-> "cached"])], env))
                      /\ fs' = fs
                 ELSE /\ stack' = SetTop(Failed(h, "Failed to extract dependency artifact", TRUE))
                      /\ fs' = FsFailed(f, fs, TRUE)
            ELSE IF ~sub.ok
            THEN /\ stack' = SetTop(Failed(Logged(g, <<"Building dependency", dep>>),
                                           sub.err, TRUE))
                 /\ fs' = FsFailed(f, fs, TRUE)
            ELSE /\ Len(stack) < MaxDepth
                 /\ stack' = Append(SetTop(Did([Logged(g, <<"Building dependency", dep>>)
                                                   EXCEPT !.pc = "dep_wait",
                                                          !.subbuilds = Append(@, [dir |-> recipe_dir,
                                                                                  how |-> "built"])],
                                               "dependency", f.idx)),
                                    NewFrame(sub.val, recipe_dir))
                 /\ fs' = fs
    /\ UNCHANGED <<pcall, pret, env, clock, outcome>>

\* the sub-build has returned: build_dependency extracts its artifacts
DependencyBuilt ==
    /\ Len(stack) >= 2 /\ Top.pc = "returned"
    /\ LET child == Top
           f == stack[Len(stack) - 1]
           rest == SubSeq(stack, 1, Len(stack) - 2) IN
       IF ~child.ret.ok
       THEN /\ stack' = Append(rest, Failed(f, child.ret.err, TRUE))
            /\ fs' = FsFailed(f, fs, TRUE)
       ELSE \E n \in 0..Len(child.ret.val) :
            LET paths == [i \in 1..n |-> child.ret.val[i].package_path]
                g == [f EXCEPT !.sysroot = @ \o paths, !.pc = "dep"] IN
            IF n < Len(child.ret.val)
            THEN /\ stack' = Append(rest, Failed(g, "Failed to extract dependency artifact", TRUE))
                 /\ fs' = FsFailed(f, fs, TRUE)
            ELSE /\ stack' = Append(rest, ItemDone(g, env))
                 /\ fs' = fs
    /\ UNCHANGED <<pcall, pret, env, clock, outcome>>

----------------------------------------------------------------------------
(* build_package: build and install steps *)

\* what run_shell_command can do: bash cannot be spawned, waiting for it
\* fails, it exits non-zero, it exits zero
ShellOutcomes == {"spawn_error", "wait_error", "exit_nonzero", "ok"}

\* a mutant of shell_error: the failure of a command carries its exit code only
shell_error_without_streams(command, outc) ==
    CASE outc = "spawn_error" -> <<"Failed to spawn command", command>>
      [] outc = "wait_error" -> <<"Failed to wait for command", command>>
      [] outc = "exit_nonzero" -> <<"Command failed with exit code", command>>

\* the errors of run_shell_command; the one of a non-zero exit carries what
\* the command wrote to stdout and to stderr
shell_error(command, outc) ==
    CASE outc = "spawn_error" -> <<"Failed to spawn command", command>>
      [] outc = "wait_error" -> <<"Failed to wait for command", command>>
      [] outc = "exit_nonzero" ->
            <<"Command failed with exit code", command,
              <<"stdout", command>>, <<"stderr", command>>>>

\* one command of a looping step has run
CommandRan(f, label, phase, outc) ==
    LET command == StepItems(f, f.pc)[f.idx]
        g == Did(Logged(f, <<label, command>>), phase, f.idx) IN
    IF outc = "ok" THEN ItemDone(g, env) ELSE Failed(g, shell_error(command, outc), TRUE)

\* run_script_if_present has run a script
ScriptRan(f, label, script, outc) ==
    LET g == Did(Logged(f, <<"Running script", label, script>>), label, 1) IN
    IF outc = "ok" THEN StepDone(g, env) ELSE Failed(g, shell_error(script, outc), TRUE)

\* one build command of execute_build_steps
RunBuildCommand ==
    /\ Running /\ Top.pc = "build"
    /\ \E outc \in ShellOutcomes :
        /\ stack' = SetTop(CommandRan(Top, "Running build command", "build command", outc))
        /\ fs' = FsFailed(Top, fs, outc # "ok")
    /\ UNCHANGED <<pcall, pret, env, clock, outcome>>

\* fs::create_dir_all(&destdir), whose failure returns without cleaning up
CreateDestdir ==
    /\ Running /\ Top.pc = "destdir"
    /\ \E created \in BOOLEAN :
        stack' = SetTop(IF created THEN StepDone(Top, env)
                        ELSE Failed(Top, "Failed to create DESTDIR", FALSE))
    /\ UNCHANGED <<pcall, pret, fs, env, clock, outcome>>

RunPreInstallScript ==
    /\ Running /\ Top.pc = "pre_install"
    /\ \E outc \in ShellOutcomes :
        /\ stack' = SetTop(ScriptRan(Top, "pre_install", Unwrap(Unwrap(Top.spec).pre_install), outc))
        /\ fs' = FsFailed(Top, fs, outc # "ok")
    /\ UNCHANGED <<pcall, pret, env, clock, outcome>>

\* one directory of install_directories (every method but CopyFiles)
CreateInstallDirectory ==
    /\ Running /\ Top.pc = "install_dirs"
    /\ \E created \in BOOLEAN :
       LET f == Did(Logged(Top, <<"Ensuring directory exists", StepItems(Top, Top.pc)[Top.idx]>>),
                    "install directory", Top.idx) IN
        /\ stack' = SetTop(IF created THEN ItemDone(f, env)
                           ELSE Failed(f, "Failed to create install directory", TRUE))
        /\ fs' = FsFailed(Top, fs, ~created)
    /\ UNCHANGED <<pcall, pret, env, clock, outcome>>

RunInstallCommand ==
    /\ Running /\ Top.pc = "install_cmds"
    /\ \E outc \in ShellOutcomes :
        /\ stack' = SetTop(CommandRan(Top, "Running install command", "install", outc))
        /\ fs' = FsFailed(Top, fs, outc # "ok")
    /\ UNCHANGED <<pcall, pret, env, clock, outcome>>

\* one mapping of install_files (CopyFiles)
CopyInstallFile ==
    /\ Running /\ Top.pc = "copy_files"
    /\ \E copied \in BOOLEAN :
       LET f == Did(Logged(Top, <<"Copying", StepItems(Top, Top.pc)[Top.idx]>>),
                    "install", Top.idx) IN
        /\ stack' = SetTop(IF copied THEN ItemDone(f, env)
                           ELSE Failed(f, "Failed to copy", TRUE))
        /\ fs' = FsFailed(Top, fs, ~copied)
    /\ UNCHANGED <<pcall, pret, env, clock, outcome>>

RunPostInstallCommand ==
    /\ Running /\ Top.pc = "post_cmds"
    /\ \E outc \in ShellOutcomes :
        /\ stack' = SetTop(CommandRan(Top, "Running post-install command",
                                      "post-install command", outc))
        /\ fs' = FsFailed(Top, fs, outc # "ok")
    /\ UNCHANGED <<pcall, pret, env, clock, outcome>>

RunPostInstallScript ==
    /\ Running /\ Top.pc = "post_install"
    /\ \E outc \in ShellOutcomes :
        /\ stack' = SetTop(ScriptRan(Top, "post_install", Unwrap(Unwrap(Top.spec).post_install), outc))
        /\ fs' = FsFailed(Top, fs, outc # "ok")
    /\ UNCHANGED <<pcall, pret, env, clock, outcome>>

----------------------------------------------------------------------------
(* build_package: the publication tuple and package_artifacts *)

\* a mutant of arch_label: the label of the target triple
arch_label_by_triple(b) ==
    IF IsSome(b.target_arch) THEN TripleLabel(Unwrap(b.target_arch))
    ELSE LabelChars(b.host_arch)

arch_label(b) ==
    IF IsSome(b.target_arch) THEN LabelChars(as_label(Unwrap(b.target_arch)))
    ELSE LabelChars(b.host_arch)

effective_release(package_release, target_release) ==
    IF target_release # <<>> /\ ~contains(package_release, target_release)
    THEN Concat(<<package_release, <<".">>, target_release>>)
    ELSE package_release

\* the values build_package hands to package_artifacts
Publication(f, e) ==
    LET target_release == UnwrapOr(e.PAX_TARGET_RELEASE, DefaultTargetRelease) IN
    [package_name |-> UnwrapOr(e.PAX_PACKAGE_NAME, package_name_of(Unwrap(f.spec))),
     version |-> UnwrapOr(e.PAX_PACKAGE_VERSION, Unwrap(f.spec).version),
     release |-> effective_release(UnwrapOr(e.PAX_PACKAGE_RELEASE, DefaultRelease),
                                   target_release),
     target_release |-> target_release,
     branch |-> UnwrapOr(e.PAX_BRANCH, DefaultBranch),
     arch_label |-> arch_label(f.builder)]

binary_filename(pub) ==
    Concat(<<sanitize_component(pub.package_name), <<"-">>,
             sanitize_component(pub.version), <<"-">>,
             sanitize_component(pub.release), <<"-">>,
             sanitize_component(pub.arch_label), ExtPax>>)

source_filename(pub) ==
    Concat(<<sanitize_component(pub.package_name), <<"-">>,
             sanitize_component(pub.version), <<"-">>,
             sanitize_component(pub.release), ExtSrcPax>>)

\* <target_release>/<branch>/<arch> below a root
arch_dir(pub) ==
    <<sanitize_component(pub.target_release), sanitize_component(pub.branch),
      sanitize_component(pub.arch_label)>>

binary_artifact_path(f, pub) ==
    OutPath(f.builder.output_directory.path, arch_dir(pub), binary_filename(pub))
source_artifact_path(f, pub) ==
    OutPath(f.builder.output_directory.path, arch_dir(pub), source_filename(pub))

\* the metadata document package_artifacts serialises
metadata_doc(f, pub) ==
    [package |-> [name |-> pub.package_name, version |-> pub.version,
                  release |-> pub.release, branch |-> pub.branch,
                  target_release |-> pub.target_release,
                  architecture |-> pub.arch_label,
                  source_url |-> Unwrap(f.spec).source_url],
     artifacts |-> [binary |-> binary_filename(pub), source |-> source_filename(pub)]]

\* the bytes of an artifact: which build wrote it, and which archive it is
Content(f, kind) == [kind |-> kind, ws |-> Unwrap(f.ws), of |-> f.dir]

Write(files, path, content) == [files EXCEPT !.files = (path :> content) @@ @]
Copy(files, from, to) == Write(files, to, files.files[from])

\* the head of package_artifacts: the output directory, the metadata documents
\* and the pax-metadata bundle
PrepareArtifacts ==
    /\ Running /\ Top.pc = "pkg_prepare"
    /\ \E outc \in {"ok", "output_dir_error", "metadata_error", "bundle_error"} :
        /\ stack' = SetTop(IF outc = "ok"
                           THEN StepDone([Top EXCEPT
                                            !.packaged = Some(Publication(Top, env)),
                                            !.metadata = Some(metadata_doc(Top, Publication(Top, env)))],
                                         env)
                           ELSE Failed(Top, <<"package_artifacts", outc>>, TRUE))
        /\ fs' = FsFailed(Top, fs, outc # "ok")
    /\ UNCHANGED <<pcall, pret, env, clock, outcome>>

\* tar -czf <binary artifact>; a tar that fails may leave a truncated file
PackageBinary ==
    /\ Running /\ Top.pc = "pkg_binary"
    /\ \E outc \in {"ok", "spawn_error", "tar_failed", "tar_failed_partial"} :
       LET f == Did(Logged(Top, <<"Packaging binary artifact">>), "binary archive", 1)
           path == binary_artifact_path(f, Unwrap(f.packaged))
           written == IF outc = "ok" THEN Write(fs, path, Content(f, "binary"))
                      ELSE IF outc = "tar_failed_partial"
                      THEN Write(fs, path, Content(f, "truncated binary"))
                      ELSE fs IN
        /\ stack' = SetTop(IF outc = "ok" THEN StepDone(f, env)
                           ELSE Failed(f, <<"Failed to create binary artifact", outc>>, TRUE))
        /\ fs' = FsFailed(f, written, outc # "ok")
    /\ UNCHANGED <<pcall, pret, env, clock, outcome>>

\* the source staging directory, tar -czf <source artifact>, and the removal
\* of the staging directory
PackageSource ==
    /\ Running /\ Top.pc = "pkg_source"
    /\ \E outc \in {"ok", "staging_error", "spawn_error", "tar_failed",
                    "tar_failed_partial", "staging_cleanup_error"} :
       LET staged == outc \notin {"staging_error"}
           f == IF staged
                THEN Did(Logged(Top, <<"Packaging source artifact">>), "source archive", 1)
                ELSE Top
           path == source_artifact_path(f, Unwrap(f.packaged))
           written == IF outc \in {"ok", "staging_cleanup_error"}
                      THEN Write(fs, path, Content(f, "source"))
                      ELSE IF outc = "tar_failed_partial"
                      THEN Write(fs, path, Content(f, "truncated source"))
                      ELSE fs IN
        /\ stack' = SetTop(IF outc = "ok" THEN StepDone(f, env)
                           ELSE Failed(f, <<"Failed to create source artifact", outc>>, TRUE))
        /\ fs' = FsFailed(f, written, outc # "ok")
    /\ UNCHANGED <<pcall, pret, env, clock, outcome>>

\* where the job-results block copies the source artifact: the directory
\* joined with the whole source artifact path, which PathBuf::join replaces
\* by that path when it is absolute
job_source_dest(f, pub, job_root) ==
    IF f.builder.output_directory.absolute
    THEN source_artifact_path(f, pub)
    ELSE OutPath(job_root,
                 arch_dir(pub) \o << <<f.builder.output_directory.path>> >> \o arch_dir(pub),
                 source_filename(pub))

\* the files a set of copies that succeeded leaves behind
RECURSIVE Copied(_, _)
Copied(files, copies) ==
    IF copies = {} THEN files
    ELSE LET c == CHOOSE x \in copies : TRUE IN
         Copied(IF c.from = c.to THEN files ELSE Write(files, c.to, c.content),
                copies \ {c})

\* the copies of the two artifacts the PAX_JOB_RESULTS_DIR block attempts
\* (fs.files holds the artifacts only; the metadata copies are left out)
JobCopies(f, pub, root, files) ==
    {[from |-> binary_artifact_path(f, pub),
      to |-> OutPath(root, arch_dir(pub), binary_filename(pub)),
      content |-> files.files[binary_artifact_path(f, pub)]],
     [from |-> source_artifact_path(f, pub),
      to |-> job_source_dest(f, pub, root),
      content |-> files.files[source_artifact_path(f, pub)]]}

\* the copies of the two artifacts the PAX_RESULTS_MIRROR block attempts
MirrorCopies(f, pub, root, files) ==
    {[from |-> binary_artifact_path(f, pub),
      to |-> OutPath(root, arch_dir(pub), binary_filename(pub)),
      content |-> files.files[binary_artifact_path(f, pub)]],
     [from |-> source_artifact_path(f, pub),
      to |-> OutPath(root, arch_dir(pub), source_filename(pub)),
      content |-> files.files[source_artifact_path(f, pub)]]}

\* the PAX_JOB_RESULTS_DIR block: a directory that cannot be created is an
\* error, a copy that fails is a warning
PublishJobResults ==
    /\ Running /\ Top.pc = "pkg_job"
    /\ LET f == Did(Top, "publication", 1)
           root == Unwrap(env.PAX_JOB_RESULTS_DIR)
           attempts == {c \in JobCopies(f, Unwrap(f.packaged), root, fs) : c.from # c.to} IN
       \/ /\ stack' = SetTop(Failed(f, "Failed to create job artifact directory", TRUE))
          /\ fs' = FsFailed(f, fs, TRUE)
       \/ \E done \in SUBSET attempts :
          /\ stack' = SetTop(StepDone([f EXCEPT !.warnings = @ \cup {c.to : c \in attempts \ done}],
                                      env))
          /\ fs' = Copied(fs, done)
    /\ UNCHANGED <<pcall, pret, env, clock, outcome>>

\* the PAX_RESULTS_MIRROR block: every failure is a warning
PublishMirror ==
    /\ Running /\ Top.pc = "pkg_mirror"
    /\ LET f == Did(Top, "publication", 2)
           root == Unwrap(env.PAX_RESULTS_MIRROR)
           attempts == {c \in MirrorCopies(f, Unwrap(f.packaged), root, fs) : c.from # c.to} IN
       \E done \in SUBSET attempts :
          /\ stack' = SetTop(StepDone([f EXCEPT !.warnings = @ \cup {c.to : c \in attempts \ done}],
                                      env))
          /\ fs' = Copied(fs, done)
    /\ UNCHANGED <<pcall, pret, env, clock, outcome>>

\* the tail of package_artifacts: the metadata files are removed and the
\* two paths returned
FinishArtifacts ==
    /\ Running /\ Top.pc = "pkg_finish"
    /\ stack' = SetTop(StepDone(Logged(Top, <<"Binary artifact written to",
                                             binary_artifact_path(Top, Unwrap(Top.packaged)),
                                             "Source artifact written to",
                                             source_artifact_path(Top, Unwrap(Top.packaged))>>),
                                env))
    /\ UNCHANGED <<pcall, pret, fs, env, clock, outcome>>

----------------------------------------------------------------------------
(* build_package: the descriptors and the return *)

MaxClock == 3       \* cap on the clock readings

\* fs::metadata(path).len() and the SHA-256 of the file, as functions of its bytes
size_of(content) == <<"len", content>>
checksum_of(content) == <<"sha256", content>>

BuiltPackage(spec, path, log, checksum, size, build_time, build_duration) ==
    [spec |-> spec, package_path |-> path, build_log |-> log, checksum |-> checksum,
     size |-> size, build_time |-> build_time, build_duration |-> build_duration]

\* a mutant of BuildResults: the source descriptor repeats the binary's checksum
BuildResults_one_checksum(f, files, build_time, build_duration) ==
    LET pub == Unwrap(f.packaged)
        binary == binary_artifact_path(f, pub)
        source == source_artifact_path(f, pub) IN
    <<BuiltPackage(Unwrap(f.spec), binary, f.log, checksum_of(files.files[binary]),
                   size_of(files.files[binary]), build_time, build_duration),
      BuiltPackage(Unwrap(f.spec), source, f.log, checksum_of(files.files[binary]),
                   size_of(files.files[source]), build_time, build_duration)>>

\* the vector build_package returns
BuildResults(f, files, build_time, build_duration) ==
    LET pub == Unwrap(f.packaged)
        binary == binary_artifact_path(f, pub)
        source == source_artifact_path(f, pub) IN
    <<BuiltPackage(Unwrap(f.spec), binary, f.log, checksum_of(files.files[binary]),
                   size_of(files.files[binary]), build_time, build_duration),
      BuiltPackage(Unwrap(f.spec), source, f.log, checksum_of(files.files[source]),
                   size_of(files.files[source]), build_time, build_duration)>>

Min(a, b) == IF a <= b THEN a ELSE b

\* stat and checksum of the two artifacts (their failures return without
\* cleaning up), the two clock readings, the descriptors, the cleanup
CollectResults ==
    /\ Running /\ Top.pc = "collect"
    /\ \/ \E err \in {"Failed to stat artifact", "Failed to open file for checksum",
                      "Failed to read file for checksum"} :
            /\ stack' = SetTop(Failed(Top, err, FALSE))
            /\ UNCHANGED <<fs, clock>>
       \/ \E t1 \in clock..Min(clock + 1, MaxClock) :
          \E t2 \in t1..Min(t1 + 1, MaxClock) :
            /\ stack' = SetTop([Cleaned(Top) EXCEPT
                                  !.pc = "returned",
                                  !.ret = Ok(BuildResults(Top, fs, t1, t2 - Top.start_time))])
            /\ fs' = FsCleaned(Top, fs)
            /\ clock' = t2
    /\ UNCHANGED <<pcall, pret, env, outcome>>

----------------------------------------------------------------------------
(* The callers of build_package *)

\* the output directory PaxPackageBuilder::new computes
DefaultOutput == [path |-> "results", absolute |-> TRUE]

\* build_package of main.rs up to the call of the core: the builder, the
\* target, the output directory, the validation
MainBuild ==
    /\ pcall.fn = "main_build" /\ pret = NoRet /\ stack = <<>>
    /\ LET b0 == Builder(pcall.host, None, TRUE, DefaultOutput)
           b1 == IF IsSome(pcall.target) THEN with_target_arch(b0, Unwrap(pcall.target))
                 ELSE Ok(b0)
           b2 == IF IsSome(pcall.output_dir)
                 THEN with_output_directory(b1.val, Unwrap(pcall.output_dir))
                 ELSE b1.val
           errors == validate_spec(fs.recipes[pcall.dir]) IN
       IF ~b1.ok
       THEN pret' = Err(b1.err) /\ stack' = stack
       ELSE IF ~errors.ok
       THEN pret' = Err(errors.err) /\ stack' = stack
       ELSE IF errors.val # <<>>
       THEN pret' = Err(<<"Package specification validation failed", errors.val>>)
            /\ stack' = stack
       ELSE pret' = pret /\ stack' = <<NewFrame(b2, pcall.dir)>>
    /\ UNCHANGED <<pcall, fs, env, clock, outcome>>

\* PaxPackageBuilder::build_package called on a builder by a user of the library
LibraryBuild ==
    /\ pcall.fn = "build_package" /\ pret = NoRet /\ stack = <<>>
    /\ stack' = <<NewFrame(pcall.builder, pcall.dir)>>
    /\ UNCHANGED <<pcall, pret, fs, env, clock, outcome>>

\* the outermost build_package returns to its caller
BuildReturned ==
    /\ Len(stack) = 1 /\ Top.pc = "returned" /\ pret = NoRet
    /\ pret' = Top.ret
    /\ outcome' = Top
    /\ stack' = <<>>
    /\ UNCHANGED <<pcall, fs, env, clock>>

----------------------------------------------------------------------------
(* The build requests the model starts from *)

DirHi == <<"h", "i">>
DirA == <<"a">>
DirB == <<"b">>
DirC == <<"c">>

\* a recipe that parses, with the fields the pipeline branches on
Recipe(name, url, deps, build_deps, nb, method, ni, nd, nf, np, pre, post) ==
    RecipeDoc(Some(name), Some(Version1), Some("d"), Some("a"), url, deps,
              Cmds("build", nb), build_deps, method, Cmds("install", ni),
              Cmds("dir", nd), Cmds("file", nf), Cmds("post", np), pre, post)

\* one build command, one install command, nothing else
PlainRecipe(name, url, deps, build_deps) ==
    Recipe(name, url, deps, build_deps, 1, "RunCommands", 1, 0, 0, 0, None, None)

RelativeOutput == [path |-> "results", absolute |-> FALSE]
HostBuilder == Builder("x86_64", None, TRUE, DefaultOutput)

LibraryCall(b, dir) == [fn |-> "build_package", builder |-> b, dir |-> dir]
MainCall(host, target, output_dir, dir) ==
    [fn |-> "main_build", host |-> host, target |-> target,
     output_dir |-> output_dir, dir |-> dir]

Request(call, recipes, files, e) ==
    /\ pcall = call
    /\ pret = NoRet
    /\ stack = <<>>
    /\ fs = [recipes |-> recipes, workspaces |-> {}, files |-> files]
    /\ env = e
    /\ clock = 0
    /\ outcome = NoRet

\* recipes of every shape of the build and install steps, built through the library
ShapeRecipes ==
    {Recipe(NameHi, None, <<>>, <<>>, nb, m, ni, nd, nf, np, pre, post) :
        nb \in {1, MaxCmds}, m \in {"CopyFiles", "RunCommands", "Custom"},
        ni \in {0, MaxCmds}, nd \in {0, MaxFiles}, nf \in {0, MaxFiles},
        np \in {0, MaxCmds}, pre \in {None, Some("pre.sh")},
        post \in {None, Some("post.sh")}}

InitShapes ==
    \E doc \in ShapeRecipes, keep \in {None, Some("true")} :
        Request(LibraryCall(HostBuilder, DirHi), DirHi :> Some(doc), <<>>,
                [NoEnv EXCEPT !.PAX_BUILDER_KEEP_WORKSPACE = keep])

\* recipe files of every validity, built through the command line
MainDocs ==
    {RecipeDoc(n, v, d, a, None, <<>>, Cmds("build", nb), <<>>, m, Cmds("install", ni),
               <<>>, Cmds("file", nf), <<>>, None, None) :
        n \in {None, Some(<<>>), Some(NameHi)},
        v \in {None, Some(<<>>), Some(Version1)},
        d \in {Some(""), Some("d")},
        a \in {Some(""), Some("a")},
        nb \in {0, 1}, m \in {"CopyFiles", "RunCommands", "Custom"},
        ni \in {0, 1}, nf \in {0, MaxFiles}}

InitMain ==
    \E file \in {None} \cup {Some(doc) : doc \in MainDocs},
       target \in {None, Some("Armv8l"), Some("Riscv64")},
       output_dir \in {None, Some(RelativeOutput)} :
        Request(MainCall("x86_64", target, output_dir, DirHi), DirHi :> file, <<>>, NoEnv)

\* the values PAX_BUILDER_KEEP_WORKSPACE is given
KeepInputs == {"1", "true", "TRUE", "True", "yes", "0", "", "tRUE", "false"}

InitKeep ==
    \E keep \in {None} \cup {Some(v) : v \in KeepInputs},
       job \in {None, Some("job"), Some("results")},
       mirror \in {None, Some("mirror")},
       output \in {DefaultOutput, RelativeOutput} :
        Request(LibraryCall(with_output_directory(HostBuilder, output), DirHi),
                DirHi :> Some(PlainRecipe(NameHi, None, <<>>, <<>>)), <<>>,
                [NoEnv EXCEPT !.PAX_BUILDER_KEEP_WORKSPACE = keep,
                              !.PAX_JOB_RESULTS_DIR = job,
                              !.PAX_RESULTS_MIRROR = mirror])

\* source URLs: no mirror, the GNU mirrors, the codeload mirror, a github URL
\* that is not https, blank ones, one without a file name
SourceUrls ==
    {<<"https", "://", "example.org/", "pkg.tar.gz">>,
     <<"https", "://", "ftp.gnu.org/", "gnu/", "hello/", "hello.tar.gz">>,
     <<"https", "://", "github.com/", "o/r", "/archive/refs/tags/", "v1.tar.gz">>,
     <<"http", "://", "github.com/", "o/r", "/archive/refs/tags/", "v1.tar.gz">>,
     <<"https", "://", "ftpmirror.gnu.org/", "hello/", "hello.tar.gz">>,
     <<" ">>,
     <<>>,
     <<"https", "://", "example.org/", "..">>}

InitSources ==
    \E url \in SourceUrls, keep \in {None, Some("1")} :
        Request(LibraryCall(HostBuilder, DirHi),
                DirHi :> Some(PlainRecipe(NameHi, Some(url), <<>>, <<>>)), <<>>,
                [NoEnv EXCEPT !.PAX_BUILDER_KEEP_WORKSPACE = keep])

\* names of build dependencies: auto-built ones of recipes b, a, c and e
\* (e has no recipe), and one that is not a development package
DepBdevel == DirB \o SfxDevel
DepBdev == DirB \o SfxDev
DepAdevel == DirA \o SfxDevel
DepCheaders == DirC \o SfxHeaders
DepEsdk == <<"e">> \o SfxSdk
DepZ == <<"z">>

\* (dependencies.build, build_dependencies) of the top-level recipe
DependencyLists ==
    {<< <<DepBdevel>>, <<>> >>,
     << <<DepBdevel>>, <<DepBdev>> >>,
     << <<DepZ, DepBdevel>>, <<>> >>,
     << <<>>, <<DepAdevel, DepBdevel>> >>,
     << <<DepEsdk>>, <<DepCheaders>> >>,
     << <<DepBdevel, DepCheaders>>, <<>> >>}

\* recipe b needs a-devel, recipe a needs b-devel
RecipeB == PlainRecipe(DirB, None, <<>>, <<DepAdevel>>)
RecipeC == PlainRecipe(DirC, None, <<DepBdevel>>, <<>>)

\* what the directory of recipe b holds: no yaml file, one that does not
\* parse, a valid recipe, a recipe without description
FilesOfB ==
    {None,
     Some([RecipeB EXCEPT !.version = None]),
     Some(RecipeB),
     Some([RecipeB EXCEPT !.description = Some("")])}

\* an artifact of b left by an earlier build, where build_dependency looks for it
CachedB(b) ==
    expected_artifact(b, DirB, load_spec(Some(RecipeB)).val)
        :> [kind |-> "binary", ws |-> build_id(load_spec(Some(RecipeB)).val, 0), of |-> DirB]

InitDependencies ==
    \E lists \in DependencyLists, fileB \in FilesOfB, cached \in BOOLEAN,
       b \in {HostBuilder, with_target_arch(HostBuilder, "Aarch64").val} :
        Request(LibraryCall(b, DirA),
                (DirA :> Some(PlainRecipe(DirA, None, lists[1], lists[2])))
                    @@ (DirB :> fileB) @@ (DirC :> Some(RecipeC)),
                IF cached THEN CachedB(b) ELSE <<>>,
                NoEnv)

\* names with characters outside [A-Za-z0-9_.-], and every override of the
\* publication tuple: name, version, release (plain, holding the target
\* release inside, ending with it), target release (unset, empty, set),
\* branch, target architecture
OddNames == {<<"a", "/", "b">>, <<"a", " ">>}

InitPublication ==
    \E name \in OddNames,
       package_name \in {None, Some(<<"n", "!">>)},
       version \in {None, Some(<<"2">>)},
       release \in {None, Some(<<"3">>), Some(<<"f", "o", "x">>), Some(<<"3", ".", "f", "o">>)},
       target_release \in {None, Some(<<>>), Some(<<"f", "o">>)},
       branch \in {None, Some(<<"d", "/">>)},
       b \in {HostBuilder, with_target_arch(HostBuilder, "X86_64v3").val} :
        Request(LibraryCall(b, DirHi),
                DirHi :> Some(PlainRecipe(name, None, <<>>, <<>>)), <<>>,
                [NoEnv EXCEPT !.PAX_PACKAGE_NAME = package_name,
                              !.PAX_PACKAGE_VERSION = version,
                              !.PAX_PACKAGE_RELEASE = release,
                              !.PAX_TARGET_RELEASE = target_release,
                              !.PAX_BRANCH = branch])

\* a valid recipe b without dependencies
RecipeBPlain == PlainRecipe(DirB, None, <<>>, <<>>)

\* a caller that builds recipe a, which needs b-devel, and builds it again
\* after the first build succeeded; PAX_PACKAGE_NAME, when set, is read by
\* every build_package of the process
RebuildCall(b, dir) ==
    [fn |-> "build_package", builder |-> b, dir |-> dir, again |-> TRUE, first |-> None]

InitRebuild ==
    \E package_name \in {None, Some(<<"n">>)},
       b \in {HostBuilder, with_target_arch(HostBuilder, "Aarch64").val} :
        Request(RebuildCall(b, DirA),
                (DirA :> Some(PlainRecipe(DirA, None, <<DepBdevel>>, <<>>)))
                    @@ (DirB :> Some(RecipeBPlain)),
                <<>>,
                [NoEnv EXCEPT !.PAX_PACKAGE_NAME = package_name])

\* the caller calls build_package a second time, on the same builder and
\* recipe, with the file system the first build left
Rebuild ==
    /\ pcall.fn = "build_package" /\ stack = <<>>
    /\ "again" \in DOMAIN pcall /\ pcall.again
    /\ pret.ok
    /\ pcall' = [pcall EXCEPT !.again = FALSE, !.first = Some(outcome)]
    /\ pret' = NoRet
    /\ outcome' = NoRet
    /\ UNCHANGED <<stack, fs, env, clock>>

\* dependency names around the auto-build filter: no suffix, a suffix in
\* upper case, a suffix followed by a letter, a suffix without its hyphen, a
\* suffix in mixed case, a plain -devel name
FilterNames ==
    {DepZ,
     <<"B", "-", "D", "E", "V", "E", "L">>,
     DirB \o <<"-", "d", "e", "v", "x">>,
     <<"d", "e", "v">>,
     DirB \o <<"-", "S", "d", "k">>,
     DepBdevel}

InitFilter ==
    \E first \in FilterNames, second \in FilterNames :
        Request(LibraryCall(HostBuilder, DirA),
                (DirA :> Some(PlainRecipe(DirA, None, <<first>>, <<second>>)))
                    @@ (DirB :> Some(RecipeBPlain)),
                <<>>, NoEnv)

\* target releases and branches made of dots
DotNames == {<<".">>, <<".", ".">>, <<"d", ".">>}

InitDots ==
    \E target_release \in {None} \cup {Some(n) : n \in DotNames},
       branch \in {None} \cup {Some(n) : n \in DotNames},
       output \in {DefaultOutput, RelativeOutput} :
        Request(LibraryCall(with_output_directory(HostBuilder, output), DirHi),
                DirHi :> Some(PlainRecipe(NameHi, None, <<>>, <<>>)), <<>>,
                [NoEnv EXCEPT !.PAX_TARGET_RELEASE = target_release,
                              !.PAX_BRANCH = branch])

Init ==
    \/ InitShapes \/ InitMain \/ InitKeep \/ InitSources \/ InitDependencies
    \/ InitPublication \/ InitRebuild \/ InitFilter \/ InitDots

Next ==
    \/ MainBuild
    \/ LibraryBuild
    \/ StartBuild
    \/ PrepareSources
    \/ FetchSource
    \/ ExtractArchive
    \/ PrepareDependencies
    \/ BuildDependency
    \/ DependencyBuilt
    \/ RunBuildCommand
    \/ CreateDestdir
    \/ RunPreInstallScript
    \/ CreateInstallDirectory
    \/ RunInstallCommand
    \/ CopyInstallFile
    \/ RunPostInstallCommand
    \/ RunPostInstallScript
    \/ PrepareArtifacts
    \/ PackageBinary
    \/ PackageSource
    \/ PublishJobResults
    \/ PublishMirror
    \/ FinishArtifacts
    \/ CollectResults
    \/ BuildReturned
    \/ Rebuild

Spec == Init /\ [][Next]_vars

----------------------------------------------------------------------------
(* Claims about build_package *)

\* the activations of build_package: those running or just returned, and the
\* outermost one after its return
Activations ==
    Range(stack) \cup (IF stack = <<>> /\ Returned(pret) /\ pcall.fn \in {"main_build", "build_package"}
                          /\ outcome # NoRet
                       THEN {outcome} ELSE {})

HasReturned(f) == f.pc = "returned"

\* the values of PAX_BUILDER_KEEP_WORKSPACE that ask for retention
RetentionAsked ==
    /\ IsSome(env.PAX_BUILDER_KEEP_WORKSPACE)
    /\ Unwrap(env.PAX_BUILDER_KEEP_WORKSPACE) \in {"1", "true", "TRUE", "True"}

\* C1: a build_package that fails at any step after its workspace was
\* created, with retention not asked for, has removed the workspace when it
\* returns the error.
C1_FailureRemovesWorkspace ==
    \A f \in Activations :
        (HasReturned(f) /\ ~f.ret.ok /\ IsSome(f.ws) /\ ~RetentionAsked)
            => Unwrap(f.ws) \notin fs.workspaces

\* the place of a phase in the order of the specification
PhaseRank(phase) ==
    CASE phase = "workspace" -> 1
      [] phase = "sources" -> 2
      [] phase = "dependency" -> 3
      [] phase = "build command" -> 4
      [] phase = "pre_install" -> 5
      [] phase = "install directory" -> 6
      [] phase = "install" -> 7
      [] phase = "post-install command" -> 8
      [] phase = "post_install" -> 9
      [] phase = "binary archive" -> 10
      [] phase = "source archive" -> 11
      [] phase = "publication" -> 12
      [] phase = "cleanup" -> 13

Before(p, q) ==
    \/ PhaseRank(p.phase) < PhaseRank(q.phase)
    \/ PhaseRank(p.phase) = PhaseRank(q.phase) /\ p.idx < q.idx

\* C2: in every build_package the phases happen in the one order workspace,
\* sources, dependency builds, build commands, pre_install, install
\* directories, install, post-install commands, post_install, binary archive,
\* source archive, publication, cleanup; the items of a phase run in declared
\* order, nothing runs twice, and a build waits for its one running sub-build.
C2_PhasesInOrder ==
    /\ \A f \in Activations :
        /\ \A i \in 1..(Len(f.phases) - 1) : Before(f.phases[i], f.phases[i + 1])
        /\ f.phases # <<>> => f.phases[1].phase = "workspace"
    /\ \A i \in 1..(Len(stack) - 1) :
        /\ stack[i].pc = "dep_wait"
        /\ stack[i].phases[Len(stack[i].phases)].phase = "dependency"

C2_Witness ==
    \E f \in Activations :
        /\ HasReturned(f) /\ f.ret.ok
        /\ {"pre_install", "install directory", "install", "post-install command",
            "post_install", "source archive", "cleanup"}
              \subseteq {f.phases[i].phase : i \in 1..Len(f.phases)}
        /\ [phase |-> "post-install command", idx |-> 2] \in Range(f.phases)

\* the recipe file an activation builds
RecipeOf(f) == fs.recipes[f.dir]

\* C3: a build of a recipe that violates a validation invariant fails before
\* any side effect: no workspace, no download, no command, no artifact.
C3_InvalidRecipeNoSideEffect ==
    \A f \in Activations :
        (IsSome(RecipeOf(f)) /\ Parses(Unwrap(RecipeOf(f)))
         /\ ~MeetsInvariants(Unwrap(RecipeOf(f))))
            => /\ IsNone(f.ws)
               /\ f.phases = <<>>
               /\ f.fetches = <<>>
               /\ IsNone(f.packaged)
               /\ HasReturned(f) => ~f.ret.ok

\* C4: a successful build_package returns exactly two descriptors, the binary
\* artifact (.pax) first and the source artifact (.src.pax) second, with the
\* same build_log, build_time and build_duration, each with the size and the
\* checksum of the file at its own path.
C4_TwoDescriptors ==
    \A f \in Activations :
        (HasReturned(f) /\ f.ret.ok)
            => LET r == f.ret.val IN
               /\ Len(r) = 2
               /\ ends_with(r[1].package_path.file, <<".", "p", "a", "x">>)
               /\ ~ends_with(r[1].package_path.file, <<".", "s", "r", "c", ".", "p", "a", "x">>)
               /\ ends_with(r[2].package_path.file, <<".", "s", "r", "c", ".", "p", "a", "x">>)
               /\ r[1].build_log = r[2].build_log
               /\ r[1].build_time = r[2].build_time
               /\ r[1].build_duration = r[2].build_duration
               /\ \A i \in 1..2 :
                    /\ r[i].package_path \in DOMAIN fs.files
                    /\ r[i].size = size_of(fs.files[r[i].package_path])
                    /\ r[i].checksum = checksum_of(fs.files[r[i].package_path])

C4_Witness ==
    \E f \in Activations :
        /\ HasReturned(f) /\ f.ret.ok
        /\ f.ret.val[1].build_time = 1 /\ f.ret.val[1].build_duration = 2
        /\ IsSome(env.PAX_JOB_RESULTS_DIR)

----------------------------------------------------------------------------
(* Claims about the source download *)

\* the activations in which download_source has tried a candidate and
\* nothing has run since
Downloading == {f \in Activations : f.fetches # <<>>}

SourceUrlOf(f) == Unwrap(Unwrap(f.spec).source_url)
HostOf(url) == url[3]

\* the hosts of the mirrors the specification derives from a URL
MirrorHosts(url) ==
    (IF contains(url, <<"://", "ftp.gnu.org/", "gnu/">>)
     THEN <<"ftpmirror.gnu.org/", "mirrors.kernel.org/">> ELSE <<>>)
    \o (IF starts_with(url, <<"https", "://", "github.com/">>)
           /\ contains(url, <<"/archive/refs/tags/">>)
        THEN <<"codeload.github.com/">> ELSE <<>>)

\* the original first, then the mirrors in order, no URL twice
TriedInOrder(f) ==
    /\ f.fetches[1].url = SourceUrlOf(f)
    /\ Len(f.fetches) <= 1 + Len(MirrorHosts(SourceUrlOf(f)))
    /\ \A i \in 2..Len(f.fetches) :
        HostOf(f.fetches[i].url) = MirrorHosts(SourceUrlOf(f))[i - 1]
    /\ \A i, j \in 1..Len(f.fetches) : i # j => f.fetches[i].url # f.fetches[j].url

\* the download fails only when every candidate failed, with the last error
FailsWithLastError(f) ==
    (HasReturned(f) /\ ~f.ret.ok)
        => /\ Len(f.fetches) = 1 + Len(MirrorHosts(SourceUrlOf(f)))
           /\ \A i \in 1..Len(f.fetches) : f.fetches[i].outcome # "ok"
           /\ f.ret.err = <<"Failed to download", f.fetches[Len(f.fetches)].url,
                            f.fetches[Len(f.fetches)].outcome>>

\* C9 as stated: the candidates are tried in order, the original first, then
\* the mirrors, none twice; the first candidate that answers HTTP 2xx wins
\* and no later candidate is contacted; the download fails only when every
\* candidate failed, with the error of the last one.
C9_First2xxWins ==
    \A f \in Downloading :
        /\ TriedInOrder(f)
        /\ \A i \in 1..(Len(f.fetches) - 1) :
            f.fetches[i].outcome \notin {"ok", "body_error", "write_error"}
        /\ FailsWithLastError(f)

\* C9 as amended: the candidates are tried in order, the original first, then
\* the mirrors, none twice; the first candidate whose archive is written
\* (HTTP 2xx, body read, file written) wins and no later candidate is
\* contacted, while a candidate that answers 2xx but whose body cannot be read
\* or written counts as failed; the download fails only when every candidate
\* failed, with the error of the last one.
C9_FirstWrittenWins ==
    \A f \in Downloading :
        /\ TriedInOrder(f)
        /\ \A i \in 1..(Len(f.fetches) - 1) : f.fetches[i].outcome # "ok"
        /\ f.pc = "extract" => f.fetches[Len(f.fetches)].outcome = "ok"
        /\ FailsWithLastError(f)

C9_Witness ==
    \E f \in Downloading :
        /\ f.pc = "extract"
        /\ Len(f.fetches) = 3
        /\ f.fetches[1].outcome = "body_error"
        /\ HostOf(f.fetches[3].url) = "mirrors.kernel.org/"

----------------------------------------------------------------------------
(* Claims about dependency sub-builds *)

\* C10: a dependency sub-build builds no dependencies of its own: the nesting
\* depth of build_package is at most two, whatever the dependency recipes
\* declare.
C10_DepthAtMostTwo ==
    /\ Len(stack) <= 2
    /\ \A i \in 2..Len(stack) : stack[i].subbuilds = <<>> /\ stack[i].deps = <<>>

\* a sub-build of b, which needs a-devel, gets past its dependencies inside
\* the build of a, which needs b-devel
C10_Witness ==
    /\ Len(stack) = 2
    /\ stack[1].dir = DirA /\ stack[2].dir = DirB
    /\ IsSome(stack[2].spec)
    /\ DepAdevel \in Range(Unwrap(stack[2].spec).build_dependencies)
    /\ stack[2].pc = "build"

----------------------------------------------------------------------------
(* Claims about dependency resolution *)

\* the sibling directories a dependency name resolves to: those whose
\* normalized name is the normalized dependency name, with or without its
\* -devel, -dev or -headers suffix
ResolvesTo(dep) ==
    {d \in DOMAIN fs.recipes :
        \E key \in {dep} \cup {SubSeq(dep, 1, Len(dep) - Len(sfx)) :
                                sfx \in {x \in {SfxDevel, SfxDev, SfxHeaders} : ends_with(dep, x)}} :
            normalize_name(d) = normalize_name(key)}

LogHas(f, line) == \E i \in 1..Len(f.log) : f.log[i] = line

\* C11: within one build each sibling recipe is built or extracted into the
\* dependency root at most once, a later dependency name that resolves to a
\* recipe already visited is logged and skipped, and the recipe directory of
\* the package being built is never built as a dependency.
C11_EachRecipeOnce ==
    \A f \in Activations :
        /\ \A i, j \in 1..Len(f.subbuilds) :
            i # j => f.subbuilds[i].dir # f.subbuilds[j].dir
        /\ \A i \in 1..Len(f.subbuilds) : f.subbuilds[i].dir # f.dir
        /\ \A i \in 1..Len(f.deps) :
            LogHas(f, <<"already built", f.deps[i]>>)
                => \E d \in ResolvesTo(f.deps[i]) : normalize_name(d) \in f.visited

C11_Witness ==
    \E f \in Activations :
        /\ HasReturned(f) /\ f.ret.ok
        /\ f.deps = <<DepBdevel, DepBdev>>
        /\ Len(f.subbuilds) = 1 /\ f.subbuilds[1].how = "built"
        /\ LogHas(f, <<"already built", DepBdev>>)

\* an auto-build dependency whose recipe cannot be located: no sibling
\* directory matches, or the matching directories hold no recipe file
Unlocatable(dep) ==
    /\ should_auto_build_dependency(dep)
    /\ \A d \in ResolvesTo(dep) : IsNone(fs.recipes[d])

\* C12: an auto-build dependency whose recipe cannot be located never fails
\* the build: the build does not return an error from the step that handles
\* that dependency, and nothing of it is extracted.
C12_MissingRecipeNotFatal ==
    \A f \in Activations :
        (HasReturned(f) /\ ~f.ret.ok /\ f.at = "dep") => ~Unlocatable(f.deps[f.idx])

----------------------------------------------------------------------------
(* Environment maps: merge_env and the environment of the commands *)

\* An environment is a function from keys to values.  A key is a sequence of
\* pieces (the code searches it for "PATH" and "FLAGS"), a value a sequence
\* of tokens, the empty sequence for the empty string.
KeyPath == <<"PATH">>
KeyLdLibraryPath == <<"LD_LIBRARY_", "PATH">>
KeyCflags == <<"C", "FLAGS">>
KeyPathFlags == <<"PATH", "_", "FLAGS">>
KeyCc == <<"CC">>
KeyDestdir == <<"DESTDIR">>

separator(key) ==
    IF contains(key, <<"PATH">>) /\ ~contains(key, <<"FLAGS">>) THEN ":" ELSE " "

\* a mutant of merge_env: the addition goes after the existing value
merge_env_appending(target, additions) ==
    [key \in DOMAIN target \cup {k \in DOMAIN additions : additions[k] # <<>>} |->
        IF key \notin DOMAIN additions \/ additions[key] = <<>> THEN target[key]
        ELSE IF key \notin DOMAIN target \/ target[key] = <<>> THEN additions[key]
        ELSE target[key] \o <<separator(key)>> \o additions[key]]

\* the target map after merge_env(&mut target, additions)
merge_env(target, additions) ==
    [key \in DOMAIN target \cup {k \in DOMAIN additions : additions[k] # <<>>} |->
        IF key \notin DOMAIN additions \/ additions[key] = <<>> THEN target[key]
        ELSE IF key \notin DOMAIN target \/ target[key] = <<>> THEN additions[key]
        ELSE additions[key] \o <<separator(key)>> \o target[key]]

\* for (key, value) in std::env::vars() { env.entry(key).or_insert(value) }
or_insert_all(e, host) == e @@ host

\* the environment execute_build_steps hands to its commands
build_env(recipe_env, host_env, dependency_env) ==
    merge_env(or_insert_all(recipe_env, host_env), dependency_env)

\* a mutant of install_env: DESTDIR is inserted only when the recipe has none
install_env_recipe_destdir(recipe_env, destdir, host_env, dependency_env) ==
    merge_env(or_insert_all(recipe_env @@ (KeyDestdir :> destdir), host_env), dependency_env)

\* the environment execute_install_steps hands to its commands and scripts
install_env(recipe_env, destdir, host_env, dependency_env) ==
    merge_env(or_insert_all((KeyDestdir :> destdir) @@ recipe_env, host_env), dependency_env)

\* the maps over some of the keys
Maps(keys, values) == UNION {[D -> values] : D \in SUBSET keys}

MergeKeys == {KeyPath, KeyCflags, KeyPathFlags, KeyCc}

InitMerge ==
    /\ pcall \in {[fn |-> "merge_env", target |-> t, additions |-> a] :
                    t \in Maps(MergeKeys, {<<>>, <<"t">>}),
                    a \in Maps(MergeKeys, {<<>>, <<"o">>})}
    /\ pret = NoRet
    /\ IdleBuild

MergeEnv ==
    /\ pcall.fn = "merge_env"
    /\ pret = NoRet
    /\ pret' = Ok(merge_env(pcall.target, pcall.additions))
    /\ UNCHANGED <<pcall, stack, fs, env, clock, outcome>>

NextMerge == MergeEnv

SpecMerge == InitMerge /\ [][NextMerge]_vars

\* the keys dependency_environment can define, each with a non-empty value
DependencyEnvKeys == {KeyPath, KeyLdLibraryPath, KeyCflags}
CommandKeys == {KeyDestdir, KeyPath, KeyCflags}
WorkspaceDestdir == <<"workspace", "/", "destdir">>

InitCommandEnv ==
    /\ pcall \in {[fn |-> fn, recipe_env |-> r, host_env |-> h, dependency_env |-> d,
                   destdir |-> WorkspaceDestdir] :
                    fn \in {"execute_build_steps", "execute_install_steps"},
                    r \in Maps(CommandKeys, {<<>>, <<"r">>}),
                    h \in Maps(CommandKeys, {<<>>, <<"h">>}),
                    d \in Maps(DependencyEnvKeys, {<<"o">>})}
    /\ pret = NoRet
    /\ IdleBuild

\* the head of execute_build_steps
BuildEnvironment ==
    /\ pcall.fn = "execute_build_steps"
    /\ pret = NoRet
    /\ pret' = Ok(build_env(pcall.recipe_env, pcall.host_env, pcall.dependency_env))
    /\ UNCHANGED <<pcall, stack, fs, env, clock, outcome>>

\* the head of execute_install_steps
InstallEnvironment ==
    /\ pcall.fn = "execute_install_steps"
    /\ pret = NoRet
    /\ pret' = Ok(install_env(pcall.recipe_env, pcall.destdir, pcall.host_env,
                              pcall.dependency_env))
    /\ UNCHANGED <<pcall, stack, fs, env, clock, outcome>>

NextCommandEnv == BuildEnvironment \/ InstallEnvironment

SpecCommandEnv == InitCommandEnv /\ [][NextCommandEnv]_vars

(* Claims about the environment maps *)

HasPiece(key, piece) == \E i \in 1..Len(key) : key[i] = piece

\* the value the specification gives key K after an overlay is merged into a
\* base: present says whether the base has K, old is its value
Prepended(K, present, old, overlay) ==
    IF K \notin DOMAIN overlay \/ overlay[K] = <<>> THEN old
    ELSE IF ~present \/ old = <<>> THEN overlay[K]
    ELSE overlay[K]
         \o <<IF HasPiece(K, "PATH") /\ ~HasPiece(K, "FLAGS") THEN ":" ELSE " ">>
         \o old

\* C13: merge_env leaves target[K] alone when overlay[K] is empty, sets it to
\* overlay[K] when target has no K or an empty one, and otherwise sets it to
\* overlay[K], the separator (":" for a key with PATH and without FLAGS, a
\* space otherwise) and the old value; keys outside the overlay are unchanged.
C13_OverlayPrepended ==
    (pcall.fn = "merge_env" /\ pret.ok)
        => LET t == pcall.target
               o == pcall.additions
               m == pret.val IN
           /\ DOMAIN m \subseteq DOMAIN t \cup DOMAIN o
           /\ DOMAIN t \subseteq DOMAIN m
           /\ \A K \in DOMAIN o :
                IF o[K] = <<>> THEN K \in DOMAIN m <=> K \in DOMAIN t
                ELSE K \in DOMAIN m
           /\ \A K \in DOMAIN m :
                m[K] = Prepended(K, K \in DOMAIN t, IF K \in DOMAIN t THEN t[K] ELSE <<>>, o)

C13_Witness ==
    /\ pcall.fn = "merge_env" /\ pret.ok
    /\ KeyPath \in DOMAIN pret.val /\ pret.val[KeyPath] = <<"o", ":", "t">>
    /\ KeyPathFlags \in DOMAIN pret.val /\ pret.val[KeyPathFlags] = <<"o", " ", "t">>
    /\ KeyCc \in DOMAIN pcall.additions /\ KeyCc \notin DOMAIN pret.val

\* C14: in the environment of the build and install commands the base value
\* of a key is the recipe's when the recipe defines the key and the host's
\* otherwise, with the dependency overlay prepended; in the install phase
\* DESTDIR is the workspace's destdir whatever the recipe or the host define.
C14_RecipeWinsDestdirFixed ==
    (pcall.fn \in {"execute_build_steps", "execute_install_steps"} /\ pret.ok)
        => LET r == pcall.recipe_env
               h == pcall.host_env
               m == pret.val
               fixed == IF pcall.fn = "execute_install_steps" THEN {KeyDestdir} ELSE {}
               Base(K) == IF K \in fixed THEN pcall.destdir
                          ELSE IF K \in DOMAIN r THEN r[K]
                          ELSE IF K \in DOMAIN h THEN h[K] ELSE <<>> IN
           /\ DOMAIN m = DOMAIN r \cup DOMAIN h \cup DOMAIN pcall.dependency_env \cup fixed
           /\ \A K \in DOMAIN m :
                m[K] = Prepended(K, K \in fixed \cup DOMAIN r \cup DOMAIN h, Base(K),
                                 pcall.dependency_env)
           /\ \A K \in fixed : m[K] = pcall.destdir

C14_Witness ==
    /\ pcall.fn = "execute_install_steps" /\ pret.ok
    /\ KeyDestdir \in DOMAIN pcall.recipe_env /\ pcall.recipe_env[KeyDestdir] = <<"r">>
    /\ KeyDestdir \in DOMAIN pcall.host_env
    /\ pret.val[KeyDestdir] = WorkspaceDestdir
    /\ KeyPath \in DOMAIN pret.val /\ pret.val[KeyPath] = <<"o", ":", "r">>

----------------------------------------------------------------------------
(* Claims about the names of the artifacts and of the workspace *)

AllowedChars ==
    Range(LowerLetters) \cup Range(UpperLetters) \cup Digits \cup {"_", "-", "."}

\* a string with every character outside [A-Za-z0-9_.-] turned into '_',
\* and "_" for the empty string
Sanitized(value) ==
    IF value = <<>> THEN <<"_">>
    ELSE [i \in 1..Len(value) |-> IF value[i] \in AllowedChars THEN value[i] ELSE "_"]

\* the target release of a build: PAX_TARGET_RELEASE or oreon11
TargetReleaseAsked ==
    IF IsSome(env.PAX_TARGET_RELEASE) THEN Unwrap(env.PAX_TARGET_RELEASE)
    ELSE <<"o", "r", "e", "o", "n", "1", "1">>

\* C15: for every PAX_PACKAGE_RELEASE (or the default 1) and every non-empty
\* target release, the effective release of a build ends with "." and the
\* target release.
C15_ReleaseEndsWithTarget ==
    \A f \in Activations :
        (IsSome(f.packaged) /\ TargetReleaseAsked # <<>>)
            => ends_with(Unwrap(f.packaged).release, <<".">> \o TargetReleaseAsked)

\* C16: after a successful build the binary artifact is at
\* <output_root>/<target_release>/<branch>/<arch>/<name>-<version>-<release>-<arch>.pax
\* and the source artifact at <name>-<version>-<release>.src.pax beside it,
\* every component the sanitized effective value (the override of the
\* environment, else the recipe's value or the default; the architecture the
\* label of the target, else the host's); the descriptors carry these paths
\* and the metadata document these file names.
C16_ArtifactPaths ==
    \A f \in Activations :
        (HasReturned(f) /\ f.ret.ok)
            => LET spec == Unwrap(f.spec)
                   name == Sanitized(UnwrapOr(env.PAX_PACKAGE_NAME, Unwrap(spec.name)))
                   version == Sanitized(UnwrapOr(env.PAX_PACKAGE_VERSION, spec.version))
                   release == Sanitized(Unwrap(f.metadata).package.release)
                   branch == Sanitized(UnwrapOr(env.PAX_BRANCH,
                                 <<"m", "a", "i", "n", "s", "t", "r", "e", "a", "m">>))
                   arch == Sanitized(IF IsSome(f.builder.target_arch)
                                     THEN LabelChars(as_label(Unwrap(f.builder.target_arch)))
                                     ELSE LabelChars(f.builder.host_arch))
                   dir == <<Sanitized(TargetReleaseAsked), branch, arch>>
                   binary == name \o <<"-">> \o version \o <<"-">> \o release \o <<"-">>
                             \o arch \o <<".", "p", "a", "x">>
                   source == name \o <<"-">> \o version \o <<"-">> \o release
                             \o <<".", "s", "r", "c", ".", "p", "a", "x">>
                   root == f.builder.output_directory.path IN
               /\ f.ret.val[1].package_path = [root |-> root, dir |-> dir, file |-> binary]
               /\ f.ret.val[2].package_path = [root |-> root, dir |-> dir, file |-> source]
               /\ f.ret.val[1].package_path \in DOMAIN fs.files
               /\ f.ret.val[2].package_path \in DOMAIN fs.files
               /\ Unwrap(f.metadata).artifacts = [binary |-> binary, source |-> source]

C16_Witness ==
    \E f \in Activations :
        /\ HasReturned(f) /\ f.ret.ok
        /\ env.PAX_PACKAGE_NAME = Some(<<"n", "!">>)
        /\ env.PAX_BRANCH = Some(<<"d", "/">>)
        /\ env.PAX_TARGET_RELEASE = Some(<<>>)
        /\ f.builder.target_arch = Some("X86_64v3")
        /\ f.ret.val[1].package_path.dir = << <<"_">>, <<"d", "_">>, LabelChars("x86_64_v3") >>

\* C20: the name and version parts of the workspace directory name hold only
\* characters of [A-Za-z0-9_.-]: they are the sanitized name and version.
C20_WorkspaceNameSanitized ==
    \A f \in Activations :
        IsSome(f.ws)
            => /\ Unwrap(f.ws).name = Sanitized(UnwrapOr(Unwrap(f.spec).name, <<>>))
               /\ Unwrap(f.ws).version = Sanitized(Unwrap(f.spec).version)
               /\ Range(Unwrap(f.ws).name) \cup Range(Unwrap(f.ws).version) \subseteq AllowedChars

----------------------------------------------------------------------------
(* Claims about the secondary destinations *)

\* the two artifacts of a publication under a root directory
ArtifactsUnder(root, pub) ==
    {OutPath(root, arch_dir(pub), binary_filename(pub)),
     OutPath(root, arch_dir(pub), source_filename(pub))}

\* C17: after a successful build with PAX_JOB_RESULTS_DIR set to a writable
\* directory J (no copy failed), copies of both artifacts are at
\* J/<target_release>/<branch>/<arch>/<filename>; the same holds for
\* PAX_RESULTS_MIRROR.
C17_CopiesAtSecondaryDestinations ==
    \A f \in Activations :
        (HasReturned(f) /\ f.ret.ok /\ f.warnings = {} /\ Len(stack) = 1)
            => /\ IsSome(env.PAX_JOB_RESULTS_DIR)
                    => ArtifactsUnder(Unwrap(env.PAX_JOB_RESULTS_DIR), Unwrap(f.packaged))
                           \subseteq DOMAIN fs.files
               /\ IsSome(env.PAX_RESULTS_MIRROR)
                    => ArtifactsUnder(Unwrap(env.PAX_RESULTS_MIRROR), Unwrap(f.packaged))
                           \subseteq DOMAIN fs.files

\* C18: no failure on a secondary destination makes build_package return an
\* error: no activation fails in the job-results or the mirror block.
C18_SecondaryFailureNotFatal ==
    \A f \in Activations :
        (HasReturned(f) /\ ~f.ret.ok) => f.at \notin {"pkg_job", "pkg_mirror"}

----------------------------------------------------------------------------
(* sanitize_component, applied to a string and then to its own result *)

MaxLen == 3         \* longest string handed to sanitize_component

\* one character of each class: a lower and an upper letter, a digit, the
\* three punctuation characters kept, and three characters replaced
SanitizeAlphabet == {"a", "Z", "9", "_", "-", ".", "/", " ", "+"}

SanitizeInputs == UNION {[1..n -> SanitizeAlphabet] : n \in 0..MaxLen}

InitSanitize ==
    /\ pcall \in {[fn |-> "sanitize_component", value |-> v, previous |-> None] :
                    v \in SanitizeInputs}
    /\ pret = NoRet
    /\ IdleBuild

SanitizeComponent ==
    /\ pcall.fn = "sanitize_component"
    /\ pret = NoRet
    /\ pret' = Ok(sanitize_component(pcall.value))
    /\ UNCHANGED <<pcall, stack, fs, env, clock, outcome>>

\* the result is handed to sanitize_component again
SanitizeResult ==
    /\ pcall.fn = "sanitize_component"
    /\ pret.ok /\ pcall.previous = None
    /\ pcall' = [pcall EXCEPT !.value = pret.val, !.previous = Some(pcall.value)]
    /\ pret' = NoRet
    /\ UNCHANGED <<stack, fs, env, clock, outcome>>

NextSanitize == SanitizeComponent \/ SanitizeResult

SpecSanitize == InitSanitize /\ [][NextSanitize]_vars

\* C19: the output of sanitize_component is never empty and holds only
\* characters of [A-Za-z0-9_.-]: every such character of the input is kept in
\* place and every other one is '_', the empty input gives "_"; applied to its
\* own output it returns it unchanged.
C19_SanitizeComponent ==
    (pcall.fn = "sanitize_component" /\ pret.ok)
        => LET v == pcall.value
               r == pret.val IN
           /\ r # <<>>
           /\ Range(r) \subseteq AllowedChars
           /\ v = <<>> => r = <<"_">>
           /\ v # <<>> => /\ Len(r) = Len(v)
                          /\ \A i \in 1..Len(v) :
                                r[i] = IF v[i] \in AllowedChars THEN v[i] ELSE "_"
           /\ IsSome(pcall.previous) => r = v

C19_Witness ==
    /\ pcall.fn = "sanitize_component" /\ pret.ok
    /\ pcall.previous = Some(<<"a", "/", "+">>)
    /\ pret.val = <<"a", "_", "_">>

----------------------------------------------------------------------------
(* clean_build_directory, called several times in a row *)

MaxCalls == 3       \* calls of clean_build_directory in a row

\* what the build directory can hold: workspaces left behind
BuildEntries == {"hi-1.0-1", "hi-1.0-2", "lo-2.0-3"}

\* the build directory: None when it does not exist, else its entries
BuildDirectories == {None} \cup {Some(entries) : entries \in SUBSET BuildEntries}

\* a mutant of clean_build_directory: a missing directory is an error
clean_build_directory_requires_directory(dir) ==
    IF IsSome(dir)
    THEN {[ret |-> Ok("unit"), dir |-> None]}
         \cup {[ret |-> Err("Failed to clean build directory"), dir |-> Some(rest)] :
                 rest \in SUBSET Unwrap(dir)}
    ELSE {[ret |-> Err("Failed to clean build directory"), dir |-> None]}

\* clean_build_directory: the outcomes, each the value returned and the
\* directory left; remove_dir_all either removes everything or fails having
\* removed some of the entries
clean_build_directory(dir) ==
    IF IsSome(dir)
    THEN {[ret |-> Ok("unit"), dir |-> None]}
         \cup {[ret |-> Err("Failed to clean build directory"), dir |-> Some(rest)] :
                 rest \in SUBSET Unwrap(dir)}
    ELSE {[ret |-> Ok("unit"), dir |-> None]}

\* the file system of a process that only cleans
BuildDirFs(dir) == [recipes |-> <<>>, workspaces |-> {}, files |-> <<>>, build_directory |-> dir]

InitClean ==
    /\ \E dir \in BuildDirectories :
        /\ pcall = [fn |-> "clean_build_directory", calls |-> 0, initial |-> dir,
                    before |-> dir, succeeded |-> FALSE]
        /\ fs = BuildDirFs(dir)
    /\ pret = NoRet
    /\ stack = <<>> /\ env = NoEnv /\ clock = 0 /\ outcome = NoRet

CleanBuildDirectory ==
    /\ pcall.fn = "clean_build_directory"
    /\ pcall.calls < MaxCalls
    /\ \E out \in clean_build_directory(fs.build_directory) :
        /\ pret' = out.ret
        /\ fs' = [fs EXCEPT !.build_directory = out.dir]
        /\ pcall' = [pcall EXCEPT !.calls = @ + 1, !.before = fs.build_directory,
                                  !.succeeded = @ \/ (pcall.calls > 0 /\ pret.ok)]
    /\ UNCHANGED <<stack, env, clock, outcome>>

NextClean == CleanBuildDirectory

SpecClean == InitClean /\ [][NextClean]_vars

\* C21: clean_build_directory is idempotent: a call that succeeds leaves no
\* build directory, whatever the directory held; a call that finds no build
\* directory returns success and leaves none; so every call that follows a
\* successful one in a row returns success and leaves the same state.
C21_CleanIdempotent ==
    (pcall.fn = "clean_build_directory" /\ pcall.calls > 0)
        => /\ pret.ok => fs.build_directory = None
           /\ pcall.before = None => (pret.ok /\ fs.build_directory = None)
           /\ pcall.succeeded => (pret.ok /\ pcall.before = None /\ fs.build_directory = None)

C21_Witness ==
    /\ pcall.fn = "clean_build_directory" /\ pcall.calls = MaxCalls
    /\ pcall.initial = Some(BuildEntries)
    /\ pcall.succeeded /\ pret.ok /\ fs.build_directory = None

----------------------------------------------------------------------------
(* Claims about the output directory *)

\* the files under the output root of the running top-level build
UnderOutputRoot ==
    {p \in DOMAIN fs.files : stack # <<>> /\ p.root = stack[1].builder.output_directory.path}

\* C22: the output directory is append-only for a top-level build, its
\* sub-builds included: no step of the build overwrites or removes a file
\* that exists under the output root, so each output path is written at most
\* once.
C22_OutputAppendOnly ==
    [][\A p \in UnderOutputRoot : p \in DOMAIN fs'.files /\ fs'.files[p] = fs.files[p]]_vars

----------------------------------------------------------------------------
(* Two build_package invocations that overlap in time: two processes (or two
   threads) that share the build directory and the system clock.  Here stack
   holds the two activations side by side. *)

NameSlash == <<"a", "/", "b">>
NameUnderscore == <<"a", "_", "b">>

\* the recipes the two invocations build: the same one, two of the same
\* version whose names differ in a '/', two unrelated ones
ConcurrentRecipes ==
    (DirHi :> Some(PlainRecipe(NameHi, None, <<>>, <<>>)))
    @@ (DirA :> Some(PlainRecipe(NameSlash, None, <<>>, <<>>)))
    @@ (DirB :> Some(PlainRecipe(NameUnderscore, None, <<>>, <<>>)))

InitConcurrent ==
    /\ \E d1 \in DOMAIN ConcurrentRecipes, d2 \in DOMAIN ConcurrentRecipes,
          keep \in {None, Some("1")} :
        /\ pcall = [fn |-> "concurrent_builds", dirs |-> <<d1, d2>>]
        /\ stack = <<NewFrame(HostBuilder, d1), NewFrame(HostBuilder, d2)>>
        /\ env = [NoEnv EXCEPT !.PAX_BUILDER_KEEP_WORKSPACE = keep]
    /\ pret = NoRet
    /\ fs = [recipes |-> ConcurrentRecipes, workspaces |-> {}, files |-> <<>>]
    /\ clock = 0
    /\ outcome = NoRet

\* the head of build_package in invocation i: the clock reading, the
\* build_id, fs::create_dir_all of the workspace (which succeeds on a
\* directory that exists)
ConcurrentStart(i) ==
    /\ pcall.fn = "concurrent_builds"
    /\ stack[i].pc = "start"
    /\ LET f == stack[i]
           loaded == load_spec(fs.recipes[f.dir])
           ws == build_id(loaded.val, clock)
           g == [f EXCEPT !.spec = Some(loaded.val), !.start_time = clock] IN
       \E created \in BOOLEAN :
        IF ~created
        THEN /\ stack' = [stack EXCEPT ![i] = Failed(g, <<"Failed to create workspace", ws>>, FALSE)]
             /\ fs' = fs
        ELSE /\ stack' = [stack EXCEPT ![i] = Did([g EXCEPT !.ws = Some(ws),
                                                            !.keep = keep_workspace(env),
                                                            !.pc = "sources"],
                                                  "workspace", 1)]
             /\ fs' = [fs EXCEPT !.workspaces = @ \cup {ws}]
    /\ UNCHANGED <<pcall, pret, env, clock, outcome>>

\* the rest of build_package in invocation i, up to its return: whatever the
\* result, the workspace is removed unless retention was asked for
ConcurrentLeave(i) ==
    /\ pcall.fn = "concurrent_builds"
    /\ stack[i].pc = "sources"
    /\ \E ok \in BOOLEAN :
        stack' = [stack EXCEPT ![i] = [Cleaned(stack[i]) EXCEPT
                                         !.pc = "returned",
                                         !.ret = IF ok THEN Ok("artifacts") ELSE Err("failed"),
                                         !.at = IF ok THEN "none" ELSE "build"]]
    /\ fs' = FsCleaned(stack[i], fs)
    /\ UNCHANGED <<pcall, pret, env, clock, outcome>>

\* time passes
Tick ==
    /\ pcall.fn = "concurrent_builds"
    /\ clock < MaxClock
    /\ clock' = clock + 1
    /\ UNCHANGED <<pcall, pret, stack, fs, env, outcome>>

NextConcurrent ==
    \/ \E i \in 1..2 : ConcurrentStart(i)
    \/ \E i \in 1..2 : ConcurrentLeave(i)
    \/ Tick

SpecConcurrent == InitConcurrent /\ [][NextConcurrent]_vars

\* an invocation that holds a workspace and has not returned
InWorkspace(f) == IsSome(f.ws) /\ f.pc # "returned"

\* C23: a workspace is owned by one build: two build_package invocations
\* that overlap in time have different workspace directories, also when they
\* build the same recipe and read the same clock value.
C23_WorkspaceExclusive ==
    \A i, j \in 1..Len(stack) :
        (i # j /\ InWorkspace(stack[i]) /\ InWorkspace(stack[j]))
            => Unwrap(stack[i].ws) # Unwrap(stack[j].ws)

----------------------------------------------------------------------------
(* Claims about failing commands *)

\* the steps that run a shell command or a script, and the phase of each
CommandSteps == {"build", "pre_install", "install_cmds", "post_cmds", "post_install"}

PhaseOfStep(pc) ==
    CASE pc = "build" -> "build command"
      [] pc = "pre_install" -> "pre_install"
      [] pc = "install_cmds" -> "install"
      [] pc = "post_cmds" -> "post-install command"
      [] pc = "post_install" -> "post_install"

\* the commands and scripts step pc of a recipe runs, in order
CommandsOfStep(spec, pc) ==
    CASE pc = "build" -> spec.build_commands
      [] pc = "pre_install" -> spec.pre_install
      [] pc = "install_cmds" -> spec.install_commands
      [] pc = "post_cmds" -> spec.post_install_commands
      [] pc = "post_install" -> spec.post_install

\* what an activation did, its cleanup left out
Ran(f) == SelectSeq(f.phases, LAMBDA p : p.phase # "cleanup")

ExitedNonZero(f) ==
    HasReturned(f) /\ ~f.ret.ok /\ f.at \in CommandSteps
    /\ f.ret.err[1] = "Command failed with exit code"

\* C24: when a build, install or post-install command or a pre/post-install
\* script exits non-zero, build_package returns an error that carries the
\* stdout and the stderr of that command, the command is the last thing the
\* build ran, and neither archive of the package is created.
C24_FailedCommandStopsBuild ==
    \A f \in Activations :
        ExitedNonZero(f)
            => LET last == Ran(f)[Len(Ran(f))]
                   command == CommandsOfStep(Unwrap(f.spec), f.at)[last.idx] IN
               /\ last.phase = PhaseOfStep(f.at)
               /\ f.ret.err[2] = command
               /\ \E i \in 3..Len(f.ret.err) : f.ret.err[i] = <<"stdout", command>>
               /\ \E i \in 3..Len(f.ret.err) : f.ret.err[i] = <<"stderr", command>>
               /\ IsNone(f.packaged)
               /\ \A i \in 1..Len(f.phases) :
                    f.phases[i].phase \notin {"binary archive", "source archive", "publication"}
               /\ ("first" \notin DOMAIN pcall)
                    => \A p \in DOMAIN fs.files : fs.files[p].ws # Unwrap(f.ws)

C24_Witness ==
    \E f \in Activations :
        /\ ExitedNonZero(f) /\ f.at = "post_cmds"
        /\ f.ret.err[2] = <<"post", 1>>
        /\ Len(Unwrap(f.spec).post_install_commands) = 2
        /\ IsSome(Unwrap(f.spec).post_install)
        /\ [phase |-> "install", idx |-> 2] \in Range(f.phases)

----------------------------------------------------------------------------
(* Claims about the auto-build name filter *)

LowerCased(name) ==
    [i \in 1..Len(name) |->
        IF \E k \in 1..26 : UpperLetters[k] = name[i]
        THEN LowerLetters[CHOOSE k \in 1..26 : UpperLetters[k] = name[i]]
        ELSE name[i]]

\* the lower-cased name ends with -devel, -dev, -headers or -sdk
DevelopmentName(name) ==
    \E sfx \in {<<"-", "d", "e", "v", "e", "l">>, <<"-", "d", "e", "v">>,
                <<"-", "h", "e", "a", "d", "e", "r", "s">>, <<"-", "s", "d", "k">>} :
        /\ Len(sfx) <= Len(name)
        /\ SubSeq(LowerCased(name), Len(name) - Len(sfx) + 1, Len(name)) = sfx

\* the loops of prepare_dependencies are past dependency i of the activation
DependencyHandled(f, i) ==
    IF f.pc \in {"dep", "dep_wait"} \/ (f.pc = "returned" /\ f.at \in {"dep", "dep_wait"})
    THEN i < f.idx
    ELSE TRUE

\* C25: a declared build dependency is considered for auto-build if and only
\* if its lower-cased name ends with -devel, -dev, -headers or -sdk; every
\* other one is logged as skipped, triggers no recipe lookup, no sub-build
\* and no extraction, and never fails the build.
C25_AutoBuildFilter ==
    \A f \in Activations :
        /\ \A i \in 1..Len(f.deps) :
            LET dep == f.deps[i] IN
            /\ DependencyHandled(f, i)
                => (LogHas(f, <<"Skipping auto-build", dep>>) <=> ~DevelopmentName(dep))
            /\ ~DevelopmentName(dep)
                => /\ ~LogHas(f, <<"recipe not found", dep>>)
                   /\ ~LogHas(f, <<"avoid recursive build loop", dep>>)
                   /\ ~LogHas(f, <<"already built", dep>>)
                   /\ ~LogHas(f, <<"Building dependency", dep>>)
        /\ Len(f.subbuilds) <= Cardinality({i \in 1..Len(f.deps) : DevelopmentName(f.deps[i])})
        /\ (HasReturned(f) /\ ~f.ret.ok /\ f.at \in {"dep", "dep_wait"})
                => DevelopmentName(f.deps[f.idx])

C25_Witness ==
    \E f \in Activations :
        /\ HasReturned(f) /\ f.ret.ok
        /\ f.deps = <<DirB \o <<"-", "d", "e", "v", "x">>, <<"B", "-", "D", "E", "V", "E", "L">> >>
        /\ LogHas(f, <<"Skipping auto-build", DirB \o <<"-", "d", "e", "v", "x">> >>)
        /\ LogHas(f, <<"recipe not found", <<"B", "-", "D", "E", "V", "E", "L">> >>)
        /\ f.subbuilds = <<>>

----------------------------------------------------------------------------
(* find_dependency_recipe on a release directory *)

\* the names before the suffix: plain, upper case, with a hyphen, ending with
\* a suffix themselves, empty
DiscoveryBases ==
    {<<"b">>, <<"B", "x">>, <<"b", "-", "x">>, <<"b", "-", "d", "e", "v">>, <<>>}

DiscoverySuffixes == {SfxDevel, SfxDev, SfxHeaders}

\* the subdirectories the release directory may hold
DiscoveryDirs ==
    {<<"b">>, <<"B", "_", "X">>, <<"b", "x">>, <<"b", "d", "e", "v", "e", "l">>,
     <<"b", "-", "d", "e", "v">>, <<"c">>, <<"_">>}

InitDiscovery ==
    /\ \E base \in DiscoveryBases, sfx \in DiscoverySuffixes, dirs \in SUBSET DiscoveryDirs :
        /\ pcall = [fn |-> "find_dependency_recipe", dep_name |-> base \o sfx,
                    base |-> base, suffix |-> sfx]
        /\ fs = [recipes |-> [d \in dirs |-> None], workspaces |-> {}, files |-> <<>>]
    /\ pret = NoRet
    /\ stack = <<>> /\ env = NoEnv /\ clock = 0 /\ outcome = NoRet

\* find_dependency_recipe returns the first matching entry of read_dir, which
\* lists the directory in no particular order
FindDependencyRecipe ==
    /\ pcall.fn = "find_dependency_recipe"
    /\ pret = NoRet
    /\ LET found == find_dependency_recipe(pcall.dep_name, fs.recipes) IN
       IF found = {} THEN pret' = Ok(None)
       ELSE \E d \in found : pret' = Ok(Some(d))
    /\ UNCHANGED <<pcall, stack, fs, env, clock, outcome>>

NextDiscovery == FindDependencyRecipe

SpecDiscovery == InitDiscovery /\ [][NextDiscovery]_vars

\* a name reduced to its ASCII letters and digits, lower-cased
Normalized(name) ==
    LowerCased(SelectSeq(name, LAMBDA c : c \in AllowedChars \ {"_", "-", "."}))

\* the subdirectories that match a dependency name or its base
Matching(dep_name, base) ==
    {d \in DOMAIN fs.recipes :
        Normalized(d) = Normalized(dep_name) \/ Normalized(d) = Normalized(base)}

----------------------------------------------------------------------------
(* Claims about the dependency cache *)

\* the recipes an earlier successful build of the same caller built by a
\* sub-build, which published them under the output root
BuiltEarlier ==
    IF "first" \in DOMAIN pcall /\ IsSome(pcall.first)
    THEN {Unwrap(pcall.first).subbuilds[i].dir :
            i \in {k \in 1..Len(Unwrap(pcall.first).subbuilds) :
                      Unwrap(pcall.first).subbuilds[k].how = "built"}}
    ELSE {}

\* C27: dependency artifacts are cached across builds: a dependency that a
\* sub-build of an earlier build built and published under the output root
\* is, in a later build with the same output root, target architecture and
\* recipe, taken from the cache and never built by a sub-build again.
C27_DependencyCachedAcrossBuilds ==
    \A f \in Activations :
        \A i \in 1..Len(f.subbuilds) :
            f.subbuilds[i].dir \in BuiltEarlier => f.subbuilds[i].how = "cached"

----------------------------------------------------------------------------
(* Claims about the publication *)

\* the complete archives under the output roots that activation f wrote
WrittenBy(f) ==
    {p \in DOMAIN fs.files :
        /\ IsSome(f.ws) /\ fs.files[p].ws = Unwrap(f.ws) /\ fs.files[p].of = f.dir
        /\ fs.files[p].kind \in {"binary", "source"}}

\* C28: publication to the primary output is all-or-nothing: when
\* build_package returns an error the output root holds no binary and no
\* source artifact this build wrote, and when it returns success it holds
\* both.
C28_PublicationAllOrNothing ==
    \A f \in Activations :
        (HasReturned(f) /\ "first" \notin DOMAIN pcall)
            => IF f.ret.ok
               THEN /\ f.ret.val[1].package_path \in WrittenBy(f)
                    /\ f.ret.val[2].package_path \in WrittenBy(f)
               ELSE WrittenBy(f) = {}

----------------------------------------------------------------------------
(* The artifact paths of two builds into one output root *)

\* names and versions that differ only in characters sanitize_component
\* replaces, or in where the hyphens fall
NamingNames == {<<"a", "/", "b">>, <<"a", "_", "b">>, <<"a", "-", "1">>, <<"a">>}
NamingVersions == {<<"0">>, <<"1", "-", "0">>, <<"1">>}
NamingArchs == {"x86_64", "aarch64"}

\* the publication tuple of a build of the default release, target release
\* and branch
NamingTuple(name, version, arch) ==
    [package_name |-> name, version |-> version,
     release |-> effective_release(DefaultRelease, DefaultTargetRelease),
     target_release |-> DefaultTargetRelease, branch |-> DefaultBranch,
     arch_label |-> LabelChars(arch)]

NamingTuples ==
    {NamingTuple(n, v, a) : n \in NamingNames, v \in NamingVersions, a \in NamingArchs}

InitNaming ==
    /\ \E one \in NamingTuples, other \in NamingTuples :
        pcall = [fn |-> "binary_artifact_path", one |-> one, other |-> other]
    /\ pret = NoRet
    /\ IdleBuild

\* package_artifacts computes the binary artifact path of each of the two builds
BinaryArtifactPaths ==
    /\ pcall.fn = "binary_artifact_path"
    /\ pret = NoRet
    /\ pret' = Ok(<<binary_artifact_path([builder |-> HostBuilder], pcall.one),
                    binary_artifact_path([builder |-> HostBuilder], pcall.other)>>)
    /\ UNCHANGED <<pcall, stack, fs, env, clock, outcome>>

NextNaming == BinaryArtifactPaths

SpecNaming == InitNaming /\ [][NextNaming]_vars

\* C29: artifact names are injective: two builds whose effective (name,
\* version, release, arch) tuples differ never publish to the same binary
\* artifact path under the same output root, target release and branch.
C29_ArtifactNamesInjective ==
    (pcall.fn = "binary_artifact_path" /\ pret.ok)
        => (pcall.one # pcall.other => pret.val[1] # pret.val[2])

----------------------------------------------------------------------------
(* Claims about the confinement of the published paths *)

\* C30: the binary and source artifact paths of a successful build lie
\* inside the output root: no component of <target_release>/<branch>/<arch>
\* and no file name is "." or "..".
C30_PathsInsideOutputRoot ==
    \A f \in Activations :
        (HasReturned(f) /\ f.ret.ok)
            => \A i \in 1..2 :
                LET path == f.ret.val[i].package_path IN
                /\ path.root = f.builder.output_directory.path
                /\ \A k \in 1..Len(path.dir) : path.dir[k] \notin {<<".">>, <<".", ".">>}
                /\ path.file \notin {<<".">>, <<".", ".">>}

====
